---------------------------- MODULE Spec2Model ----------------------------
(*
  Verification model of the data-derivation layer of Ubeswap/uniswap-info:

    - the chart back-fill of getChartData (contexts/GlobalData.tsx) and of
      getPairChartData (contexts/PairData.tsx): paging, gap-filling, sorting and
      the weekly re-aggregation                                   (SpecChart)
    - getBulkPairData / parseData, the bulk pair assembler          (SpecBulk)
    - the pair session cache, its reducer and the hooks that fill it (SpecPair)
    - the global session cache, its reducer and useGlobalData      (SpecGlobal)
    - the two reducers under arbitrary dispatches                (SpecReducers)

  Every specification leaves the variables of the other parts at their
  initial value.
*)
EXTENDS Integers, Sequences, FiniteSets, TLC

VARIABLES
  \* ---- chart back-fill (getChartData / getPairChartData)
  chKind,      \* "global" (getChartData) or "pair" (getPairChartData)
  chSource,    \* the day records held by the data source, ascending by date
  chNow,       \* utcEndTime.unix()
  chPc,        \* "paging" while the paging loop awaits a page, then "done"
  chSkip,      \* the loop's skip variable
  chData,      \* the local `data`
  chWeekly,    \* the local `weeklyData` (getChartData only)
  chCaught     \* what the catch block caught: "none", "query" (a rejected page
               \* query) or "TypeError" (a read of a field of undefined)

VARIABLES
  \* ---- getBulkPairData(pairList)
  bkList,      \* pairList, the set of requested pair ids
  bkCreated,   \* the source: the block each pair was created at (0: no such pair)
  bkPc,        \* "blocks", "current", "historical", "pairs", "done"
  bkCurrent,   \* current.data.pairs (empty until the current bulk query answers)
  bkBulk,      \* per period, the historical bulk result (Pending until answered)
  bkWait,      \* per pair, the period whose fallback query it awaits, or
               \* "idle" (callback not started) or "parsed"
  bkHistory,   \* per pair, oneDayHistory / twoDayHistory / oneWeekHistory
  bkBundles,   \* per pair, what parseData returned for it
  bkQueries,   \* every query issued so far, as <<query, period, pair>>
  bkResult     \* "pending", then "list", "undefined" or "rejected"

VARIABLES
  \* ---- the pair session cache and the hooks of a mounted pair page
  pairState,     \* the reducer state of contexts/PairData.tsx: per pair address
                 \* NoVal (no such key) or the entry stored under it
  pgSource,      \* the pairs the data source holds
  pgHooks,       \* the hooks the page mounts
  pgAddr,        \* the pairAddress the page passes to its hooks
  pgWindow,      \* the timeWindow the page passes to useHourlyRateData
  pgLatestBlock, \* LATEST_BLOCK of the application context: "unknown" until
                 \* updateLatestBlock has stored the synced block, then "known"
  pgPending,     \* the hooks whose effect is scheduled: mounted, or rendered
                 \* with a changed dependency, and not run yet
  pgFlight,      \* per fetch (hook, captured key): how many are in flight
  pgLaunched,    \* per fetch (hook, captured key): how many were launched
  pgNavs,        \* how often the page changed pairAddress or timeWindow
  pgLate,        \* the hooks a fetch of which completed after the page had
                 \* left the key the fetch was launched for
  upPc           \* Updater: "mount", "query" (PAIRS_CURRENT in flight),
                 \* "bulk" (getBulkPairData in flight), "done"

chartVars == <<chKind, chSource, chNow, chPc, chSkip, chData, chWeekly, chCaught>>

bulkVars == <<bkList, bkCreated, bkPc, bkCurrent, bkBulk, bkWait, bkHistory,
              bkBundles, bkQueries, bkResult>>

VARIABLES
  \* ---- the global session cache and the hooks of a mounted global page
  gState,        \* the reducer state of contexts/GlobalData.tsx: per key
                 \* Absent (no such key) or the value stored under it
  glPending,     \* the hooks whose effect is scheduled and not run yet
  glRounds,      \* per await of fetchData: the rounds waiting at it
  glFlight,      \* per other hook: how many of its fetches are in flight
  glNulls        \* how often getGlobalData has resolved to null

VARIABLES
  \* ---- the reducers under arbitrary dispatches
  rdContext,     \* the context whose reducer the dispatches go to: "PairData",
                 \* "GlobalData", or "none" (hooks dispatch, see above)
  appState,      \* the state of the Application context's reducer
  rdLast,        \* the last dispatch: its action, the state it was applied
                 \* to and whether the reducer threw; NoVal before the first
  rdCount        \* the number of dispatches so far

VARIABLES
  \* ---- one call of a data function (getGlobalData, getCeloPrice, ...)
  fnPc,          \* "call" until the function has run, then "done"
  fnSource,      \* what the data source holds and how it answers this call
  fnLocals,      \* the local variables of a call that awaits in a loop
  fnResult       \* Pending, then what the call returned

pairVars == <<pairState, pgSource, pgHooks, pgAddr, pgWindow, pgLatestBlock, pgPending,
              pgFlight, pgLaunched, pgNavs, pgLate, upPc>>

globalVars == <<gState, glPending, glRounds, glFlight, glNulls>>

callVars == <<fnPc, fnSource, fnLocals, fnResult>>

dispatchVars == <<appState, rdLast, rdCount>>

vars == <<chartVars, bulkVars, pairVars, globalVars, rdContext, dispatchVars, callVars>>

\* what the actions of one part leave unchanged
notChart == <<bulkVars, pairVars, globalVars, rdContext, dispatchVars, callVars>>
notBulk == <<chartVars, pairVars, globalVars, rdContext, dispatchVars, callVars>>
notPair == <<chartVars, bulkVars, globalVars, rdContext, dispatchVars, callVars>>
notGlobal == <<chartVars, bulkVars, pairVars, rdContext, dispatchVars, callVars>>
notCall == <<chartVars, bulkVars, pairVars, globalVars, rdContext, dispatchVars>>

\* the value of an absent field, of undefined and of null (a record, as the
\* values it stands in for are records)
NoVal == [undefined |-> TRUE]

\* a query that has not answered yet
Pending == [pending |-> TRUE]

\* the answer of a list query
Answer(list) == [pairs |-> list]

-----------------------------------------------------------------------------
(* Generic helpers *)

Min(a, b) == IF a < b THEN a ELSE b

\* fold of + over a sequence of integers
RECURSIVE SumSeq(_)
SumSeq(s) == IF s = <<>> THEN 0 ELSE Head(s) + SumSeq(Tail(s))

\* Number.prototype.toFixed(0) of x / d for x >= 0, d > 0: the nearest integer,
\* the larger one on a tie.  The result is only ever used as a set key.
ToFixed0(x, d) == IF 2 * (x % d) >= d THEN (x \div d) + 1 ELSE x \div d

-----------------------------------------------------------------------------
(* Chart back-fill: bounds and inputs *)

\* `const oneDay = 24 * 60 * 60`
oneDay == 24 * 60 * 60

\* Day index (days since the epoch) of the first day of the modelled window;
\* 7 * 2700 + 3 = 18903 is Sunday 2021-10-03 (day 0 of the epoch is a Thursday).
BaseDay == 7 * 2700 + 3

\* The source holds day records only within the first WindowDays days.
WindowDays == 4
\* `now` lies at most HorizonDays days after BaseDay.
HorizonDays == 14
\* Stand-in for the page size 1000 of PAIR_CHART / GLOBAL_CHART (`first: 1000`,
\* `skip += 1000`, `length < 1000`), scaled down to the modelled source size.
PageSize == 2

\* dailyVolumeUSD values of source records
Volumes == {3, 5}
\* second-of-day offsets of `now`
NowOffsets == {0, 1, oneDay \div 2}

DayDate(k) == (BaseDay + k) * oneDay

\* A source record of day k.  The liquidity value identifies the record, so a
\* carried-forward value tells which record it was carried from.
SourceRecord(k, v) ==
  [date |-> DayDate(k), dailyVolumeUSD |-> v, liquidityUSD |-> 1000 + k]

\* the ascending sequence of the records of the days in `days` (a set of day
\* offsets), with volumes vol[k]
RECURSIVE SourceSeq(_, _)
SourceSeq(days, vol) ==
  IF days = {} THEN <<>>
  ELSE LET k == CHOOSE x \in days : \A y \in days : x <= y
       IN  <<SourceRecord(k, vol[k])>> \o SourceSeq(days \ {k}, vol)

-----------------------------------------------------------------------------
(* Chart back-fill: the algorithm *)

\* The page the source returns for `skip`: `first: 1000, skip: $skip,
\* orderBy: date, orderDirection: asc`.
QueryPage(source, skip) ==
  SubSeq(source, skip + 1, Min(Len(source), skip + PageSize))

\* `dayIndexSet`: the day index of every fetched record
DayIndexSet(data) == {ToFixed0(data[i].date, oneDay) : i \in 1..Len(data)}

\* A synthesized bucket: `{ date: nextDay, dailyVolumeUSD: 0, <liquidity>: latest }`
EmptyDay(nextDay, latest) ==
  [date |-> nextDay, dailyVolumeUSD |-> 0, liquidityUSD |-> latest]

NextLatestStale(arr, index, latest) == latest

\* `latestLiquidityUSD = dayIndexArray[index].<liquidity>` (index is 0-based)
NextLatest(arr, index, latest) == arr[index + 1].liquidityUSD

\* The `while (timestamp < utcEndTime.unix() - oneDay)` loop.  Returns the grown
\* data and whether `dayIndexArray[index]` was undefined (a TypeError).
RECURSIVE FillLoop(_, _, _, _, _, _, _)
FillLoop(data, timestamp, latest, index, dayIndexSet, dayIndexArray, endTime) ==
  IF ~(timestamp < endTime - oneDay) THEN [data |-> data, ok |-> TRUE]
  ELSE LET nextDay == timestamp + oneDay
           currentDayIndex == ToFixed0(nextDay, oneDay)
       IN  IF currentDayIndex \notin dayIndexSet
           THEN FillLoop(Append(data, EmptyDay(nextDay, latest)), nextDay, latest,
                         index, dayIndexSet, dayIndexArray, endTime)
           ELSE IF index + 1 > Len(dayIndexArray)
                THEN [data |-> data, ok |-> FALSE]
                ELSE FillLoop(data, nextDay,
                              NextLatest(dayIndexArray, index, latest),
                              index + 1, dayIndexSet, dayIndexArray, endTime)

\* "fill in empty days" of a non-empty data: starts at data[0]
FillEmptyDays(data, endTime) ==
  FillLoop(data, data[1].date, data[1].liquidityUSD, 1,
           DayIndexSet(data), data, endTime)

\* Array.prototype.sort with `(a, b) => (parseInt(a.date) > parseInt(b.date) ? 1 : -1)`,
\* as an insertion sort: an element goes before the first one with a greater date.
RECURSIVE InsertByDate(_, _)
InsertByDate(r, s) ==
  IF s = <<>> THEN <<r>>
  ELSE IF Head(s).date > r.date THEN <<r>> \o s
       ELSE <<Head(s)>> \o InsertByDate(r, Tail(s))

RECURSIVE InsertionSort(_, _)
InsertionSort(todo, sorted) ==
  IF todo = <<>> THEN sorted
  ELSE InsertionSort(Tail(todo), InsertByDate(Head(todo), sorted))

SortByDateNone(data) == data

SortByDate(data) == InsertionSort(data, <<>>)

\* `dayjs.utc(dayjs.unix(date)).week()`: the week of the date, weeks starting on
\* Sunday.  Modelled as the number of the week since the epoch: on the days of
\* one chart two dates have the same week() exactly when they lie in the same
\* Sunday-to-Saturday week.
Week(date) == ((date \div oneDay) + 4) \div 7

StartsNewWeekAlways(week, currentWeek) == TRUE

\* `if (week !== currentWeek)`
StartsNewWeek(week, currentWeek) == week # currentWeek

\* The `data.forEach` that builds weeklyData (offsetData is built from the empty
\* offsetVolumes list, so the offset correction changes nothing).
RECURSIVE WeeklyLoop(_, _, _, _)
WeeklyLoop(data, i, currentWeek, weeklyData) ==
  IF i > Len(data) THEN weeklyData
  ELSE LET week == Week(data[i].date)
           entry == [date |-> data[i].date,
                     weeklyVolumeUSD |-> data[i].dailyVolumeUSD]
       IN  IF StartsNewWeek(week, currentWeek)
           THEN WeeklyLoop(data, i + 1, week, Append(weeklyData, entry))
           ELSE LET n == Len(weeklyData)
                    merged == [date |-> data[i].date,
                               weeklyVolumeUSD |->
                                 weeklyData[n].weeklyVolumeUSD + data[i].dailyVolumeUSD]
                IN  WeeklyLoop(data, i + 1, currentWeek,
                               [weeklyData EXCEPT ![n] = merged])

WeeklyData(data) == WeeklyLoop(data, 1, -1, <<>>)

\* getChartData after the paging loop: everything from `if (data)` to the
\* return.  An empty data throws at `data[0].date` and is returned as it is.
GlobalAfterPaging(data, now) ==
  IF data = <<>> THEN [data |-> data, weekly |-> <<>>, caught |-> "TypeError"]
  ELSE LET filled == FillEmptyDays(data, now)
       IN  IF ~filled.ok
           THEN [data |-> filled.data, weekly |-> <<>>, caught |-> "TypeError"]
           ELSE LET sorted == SortByDate(filled.data)
                IN  [data |-> sorted, weekly |-> WeeklyData(sorted), caught |-> "none"]

\* getPairChartData after the paging loop: `if (data[0])` guards the fill.
PairAfterPaging(data, now) ==
  IF data = <<>> THEN [data |-> <<>>, weekly |-> <<>>, caught |-> "none"]
  ELSE LET filled == FillEmptyDays(data, now)
       IN  IF ~filled.ok
           THEN [data |-> filled.data, weekly |-> <<>>, caught |-> "TypeError"]
           ELSE [data |-> SortByDate(filled.data), weekly |-> <<>>, caught |-> "none"]

AfterPaging(kind, data, now) ==
  IF kind = "global" THEN GlobalAfterPaging(data, now) ELSE PairAfterPaging(data, now)

-----------------------------------------------------------------------------
(* Chart back-fill: the state machine *)

ChartInit ==
  /\ chKind \in {"global", "pair"}
  /\ \E days \in SUBSET (0..(WindowDays - 1)) :
       \E vol \in [days -> Volumes] :
         /\ chSource = SourceSeq(days, vol)
         /\ \E n \in 0..HorizonDays : \E off \in NowOffsets :
              /\ chNow = DayDate(n) + off
              \* the source holds no record of a day that has not begun
              /\ \A k \in days : DayDate(k) <= chNow
  /\ chPc = "paging"
  /\ chSkip = 0
  /\ chData = <<>>
  /\ chWeekly = <<>>
  /\ chCaught = "none"

ChartIdle ==
  /\ chKind = "global"
  /\ chSource = <<>>
  /\ chNow = 0
  /\ chPc = "done"
  /\ chSkip = 0
  /\ chData = <<>>
  /\ chWeekly = <<>>
  /\ chCaught = "none"

\* as ChartAllFound, but any page ends the loop
ChartAllFoundAtOnce(page) == TRUE

\* `if (result.data.<dayDatas>.length < 1000) { allFound = true }`
ChartAllFound(page) == Len(page) < PageSize

\* One iteration of the paging loop whose query succeeds; after the last page
\* the rest of the function runs without awaiting anything.
ChartPageOk ==
  /\ chPc = "paging"
  /\ LET page == QueryPage(chSource, chSkip)
         data == chData \o page
     IN  IF ChartAllFound(page)
         THEN LET r == AfterPaging(chKind, data, chNow)
              IN  /\ chData' = r.data
                  /\ chWeekly' = r.weekly
                  /\ chCaught' = r.caught
                  /\ chPc' = "done"
         ELSE /\ chData' = data
              /\ chPc' = "paging"
              /\ UNCHANGED <<chWeekly, chCaught>>
  /\ chSkip' = chSkip + PageSize
  /\ UNCHANGED <<chKind, chSource, chNow>>
  /\ UNCHANGED notChart

\* One iteration of the paging loop whose query rejects: the catch block logs
\* and the function returns what `data` holds.
ChartPageFails ==
  /\ chPc = "paging"
  /\ chPc' = "done"
  /\ chCaught' = "query"
  /\ UNCHANGED <<chKind, chSource, chNow, chSkip, chData, chWeekly>>
  /\ UNCHANGED notChart

ChartNext == ChartPageOk \/ ChartPageFails


-----------------------------------------------------------------------------
(* getBulkPairData: the data source *)

\* the pair ids of the source, in the order `orderBy: trackedReserveUSD,
\* orderDirection: desc` returns them
SourcePairs == <<"pA", "pB">>

Pairs == {SourcePairs[i] : i \in 1..Len(SourcePairs)}

\* `[oneDayResult, twoDayResult, oneWeekResult]`, `[b1, b2, bWeek]`
Periods == <<"oneDay", "twoDay", "oneWeek">>

PeriodSet == {Periods[i] : i \in 1..Len(Periods)}

\* the block of the chain head and the blocks the three reference timestamps
\* resolve to
HeadBlock == 40

BlockOf(period) ==
  CASE period = "oneDay" -> 30
    [] period = "twoDay" -> 20
    [] period = "oneWeek" -> 10

\* the blocks a pair of the source may have been created at: 0 for no such
\* pair, else older than a week, between 2 days and 1 day, younger than a day
CreationBlocks == {0, 5, 25, 35}

\* cumulative volumeUSD of a pair created at block c, as of block b
VolumeAt(c, b) == 3 * (b - c) + ((b - c) * (b - c)) \div 25

ExistsAt(p, b) == bkCreated[p] # 0 /\ bkCreated[p] <= b

\* the entity snapshot of pair p as of block b (the PairFields fragment)
Snapshot(p, b) == [id |-> p, volumeUSD |-> VolumeAt(bkCreated[p], b)]

\* `first: 500` of PAIRS_BULK
PairsBulkFirst == 500

\* `pairs(first: 500, where: { id_in: $allPairs }, block: ...)` in source order
RECURSIVE PairsWhereIdIn(_, _, _)
PairsWhereIdIn(ids, b, i) ==
  IF i > Len(SourcePairs) THEN <<>>
  ELSE (IF SourcePairs[i] \in ids /\ ExistsAt(SourcePairs[i], b)
        THEN <<Snapshot(SourcePairs[i], b)>> ELSE <<>>)
       \o PairsWhereIdIn(ids, b, i + 1)

PairsBulk(ids, b) ==
  LET all == PairsWhereIdIn(ids, b, 1)
  IN  SubSeq(all, 1, Min(Len(all), PairsBulkFirst))

\* `newData.data.pairs[0]` of PAIR_DATA for one pair at a block
PairData(p, b) == IF ExistsAt(p, b) THEN Snapshot(p, b) ELSE NoVal

-----------------------------------------------------------------------------
(* getBulkPairData: parseData *)

\* get2DayPercentChange(valueNow, value24HoursAgo, value48HoursAgo) of utils:
\* the change over the last day and its percent change against the change of
\* the day before, 0 when that is not computable.
Get2DayPercentChange(valueNow, value24HoursAgo, value48HoursAgo) ==
  LET currentChange == valueNow - value24HoursAgo
      previousChange == value24HoursAgo - value48HoursAgo
  IN  <<currentChange,
        IF previousChange = 0 THEN 0
        ELSE ((currentChange - previousChange) * 100) \div previousChange>>

\* `x?.volumeUSD ? x.volumeUSD : '0'`
VolumeOrZero(x) == IF x # NoVal THEN x.volumeUSD ELSE 0

ParseDataZeroWhenNew(data, oneDayData, twoDayData, oneWeekData) ==
  [id |-> data.id, volumeUSD |-> data.volumeUSD,
   oneDayVolumeUSD |-> IF oneDayData = NoVal THEN 0
                       ELSE data.volumeUSD - oneDayData.volumeUSD,
   oneWeekVolumeUSD |-> IF oneWeekData = NoVal THEN data.volumeUSD
                        ELSE data.volumeUSD - oneWeekData.volumeUSD,
   volumeChangeUSD |-> 0]

\* as ParseData, with the lifetime volume as the one-week volume
ParseDataWeekLifetime(data, oneDayData, twoDayData, oneWeekData) ==
  LET change == Get2DayPercentChange(data.volumeUSD, VolumeOrZero(oneDayData),
                                     VolumeOrZero(twoDayData))
  IN  [id |-> data.id, volumeUSD |-> data.volumeUSD,
       oneDayVolumeUSD |-> IF oneDayData = NoVal THEN data.volumeUSD ELSE change[1],
       oneWeekVolumeUSD |-> data.volumeUSD,
       volumeChangeUSD |-> change[2]]

\* parseData(data, oneDayData, twoDayData, oneWeekData, oneDayBlock)
ParseData(data, oneDayData, twoDayData, oneWeekData) ==
  LET change == Get2DayPercentChange(data.volumeUSD, VolumeOrZero(oneDayData),
                                     VolumeOrZero(twoDayData))
      oneWeekVolumeUSD == IF oneWeekData # NoVal
                          THEN data.volumeUSD - oneWeekData.volumeUSD
                          ELSE data.volumeUSD
  IN  [id |-> data.id, volumeUSD |-> data.volumeUSD,
       \* `if (!oneDayData && data)`: the pair has not existed for a day
       oneDayVolumeUSD |-> IF oneDayData = NoVal THEN data.volumeUSD ELSE change[1],
       \* `if (!oneWeekData && data)`
       oneWeekVolumeUSD |-> IF oneWeekData = NoVal THEN data.volumeUSD
                            ELSE oneWeekVolumeUSD,
       volumeChangeUSD |-> change[2]]

-----------------------------------------------------------------------------
(* getBulkPairData: the state machine *)

NoHistory == [q \in PeriodSet |-> NoVal]

BulkStart ==
  /\ bkBulk = [q \in PeriodSet |-> Pending]
  /\ bkWait = [p \in Pairs |-> "idle"]
  /\ bkHistory = [p \in Pairs |-> NoHistory]
  /\ bkBundles = [p \in Pairs |-> NoVal]
  /\ bkCurrent = <<>>
  /\ bkQueries = {}
  /\ bkResult = "pending"

BulkInit ==
  /\ bkList \in SUBSET Pairs
  /\ bkCreated \in [Pairs -> CreationBlocks]
  /\ bkPc = "blocks"
  /\ BulkStart

BulkIdle ==
  /\ bkList = {}
  /\ bkCreated = [p \in Pairs |-> 0]
  /\ bkPc = "done"
  /\ BulkStart

\* the ids of the pairs the current bulk query returned
CurrentIds == {bkCurrent[i].id : i \in 1..Len(bkCurrent)}

CurrentOf(p) == bkCurrent[CHOOSE i \in 1..Len(bkCurrent) : bkCurrent[i].id = p]

\* getBlocksFromTimestamps of utils: what it may answer for the three reference
\* timestamps, as the set of those it found a block for ("if a timestamp maps
\* to no block, the corresponding output is absent/null").
ResolverAnswers == SUBSET PeriodSet

\* `await getBlocksFromTimestamps([t1, t2, tWeek])` and the destructuring of its
\* three elements, outside the try block: { number } of an absent element is a
\* TypeError, which rejects the promise getBulkPairData returned.
BulkBlocks ==
  /\ bkPc = "blocks"
  /\ \E found \in ResolverAnswers :
       IF found = PeriodSet
       THEN /\ bkPc' = "current"
            /\ bkQueries' = bkQueries \cup {<<"PAIRS_BULK", "now", "all">>}
            /\ UNCHANGED bkResult
       ELSE /\ bkPc' = "done"
            /\ bkResult' = "rejected"
            /\ UNCHANGED bkQueries
  /\ UNCHANGED <<bkList, bkCreated, bkCurrent, bkBulk, bkWait, bkHistory, bkBundles>>
  /\ UNCHANGED notBulk

\* as HistoricalBulkQueries, with one query for every pair of the list
HistoricalBulkQueriesPerPair(pairList) ==
  {<<"PAIRS_HISTORICAL_BULK", q, p>> : q \in PeriodSet, p \in pairList}

\* `[b1, b2, bWeek].map(async (block) => client.query(PAIRS_HISTORICAL_BULK,
\* { block, pairs: pairList }))`: one query for each block, for the whole list
HistoricalBulkQueries(pairList) ==
  {<<"PAIRS_HISTORICAL_BULK", q, "all">> : q \in PeriodSet}

\* the current bulk query answers; the three historical bulk queries are issued
BulkCurrentOk ==
  /\ bkPc = "current"
  /\ bkCurrent' = PairsBulk(bkList, HeadBlock)
  /\ bkQueries' = bkQueries \cup HistoricalBulkQueries(bkList)
  /\ bkPc' = "historical"
  /\ UNCHANGED <<bkList, bkCreated, bkBulk, bkWait, bkHistory, bkBundles, bkResult>>
  /\ UNCHANGED notBulk

\* the current bulk query rejects: the outer catch logs and the function
\* returns undefined
BulkCurrentFails ==
  /\ bkPc = "current"
  /\ bkPc' = "done"
  /\ bkResult' = "undefined"
  /\ UNCHANGED <<bkList, bkCreated, bkCurrent, bkBulk, bkWait, bkHistory,
                 bkBundles, bkQueries>>
  /\ UNCHANGED notBulk

\* as NextMissing, with no fallback query for any period
NextMissingNone(hist, i) == "parsed"

\* the first period, from index i on, for which `hist` holds no snapshot
RECURSIVE NextMissing(_, _)
NextMissing(hist, i) ==
  IF i > Len(Periods) THEN "parsed"
  ELSE IF hist[Periods[i]] = NoVal THEN Periods[i]
       ELSE NextMissing(hist, i + 1)

PeriodIndex(q) == CHOOSE i \in 1..Len(Periods) : Periods[i] = q

PairsToParseWithHistory(current) ==
  {current[i].id : i \in {j \in 1..Len(current) : ExistsAt(current[j].id, BlockOf("oneDay"))}}

\* `current.data.pairs.map(async (pair) => ...)`: the pairs a bundle is built for
PairsToParse(current) == {current[i].id : i \in 1..Len(current)}

\* The state after pair callbacks moved on: a pair whose next stop is
\* "parsed" gets its bundle, a pair that stops at a period has issued that
\* period's fallback query; the function returns once every callback is over.
BulkContinue(wait, history) ==
  /\ bkWait' = wait
  /\ bkHistory' = history
  /\ bkBundles' = [p \in Pairs |->
                     IF wait[p] = "parsed" /\ bkBundles[p] = NoVal
                     THEN ParseData(CurrentOf(p), history[p]["oneDay"],
                                    history[p]["twoDay"], history[p]["oneWeek"])
                     ELSE bkBundles[p]]
  /\ bkQueries' = bkQueries \cup
                    {<<"PAIR_DATA", wait[p], p>> :
                       p \in {x \in Pairs : wait[x] \in PeriodSet}}
  /\ IF \A p \in Pairs : wait[p] \in {"idle", "parsed"}
     THEN bkPc' = "done" /\ bkResult' = "list"
     ELSE bkPc' = "pairs" /\ UNCHANGED bkResult

\* the bulk result of one period as `{ [cur.id]: cur }`
HistoryFromBulk(bulk, p) ==
  [q \in PeriodSet |->
     LET list == bulk[q].pairs
     IN  IF \E i \in 1..Len(list) : list[i].id = p
         THEN list[CHOOSE i \in 1..Len(list) : list[i].id = p]
         ELSE NoVal]

\* One historical bulk query answers (ok) or rejects (caught: `return []`).
\* With the last of the three, Promise.all resolves and every pair's callback
\* runs to its first fallback query, or to parseData when it needs none.
BulkHistorical(q, ok) ==
  /\ bkPc = "historical"
  /\ bkBulk[q] = Pending
  /\ LET bulk == [bkBulk EXCEPT ![q] = IF ok THEN Answer(PairsBulk(bkList, BlockOf(q)))
                                             ELSE Answer(<<>>)]
     IN  /\ bkBulk' = bulk
         /\ IF \E r \in PeriodSet : bulk[r] = Pending
            THEN UNCHANGED <<bkPc, bkWait, bkHistory, bkBundles, bkQueries, bkResult>>
            ELSE LET history == [p \in Pairs |->
                                   IF p \in PairsToParse(bkCurrent)
                                   THEN HistoryFromBulk(bulk, p) ELSE NoHistory]
                     wait == [p \in Pairs |->
                                IF p \in PairsToParse(bkCurrent)
                                THEN NextMissing(history[p], 1) ELSE "idle"]
                 IN  BulkContinue(wait, history)
  /\ UNCHANGED <<bkList, bkCreated, bkCurrent>>
  /\ UNCHANGED notBulk

\* The fallback query pair p awaits answers (ok) or rejects (caught and
\* logged); the callback goes on to its next missing period or to parseData.
BulkFallback(p, ok) ==
  /\ bkPc = "pairs"
  /\ bkWait[p] \in PeriodSet
  /\ LET q == bkWait[p]
         got == IF ok THEN PairData(p, BlockOf(q)) ELSE NoVal
         history == [bkHistory EXCEPT ![p][q] = got]
         wait == [bkWait EXCEPT ![p] = NextMissing(history[p], PeriodIndex(q) + 1)]
     IN  BulkContinue(wait, history)
  /\ UNCHANGED <<bkList, bkCreated, bkCurrent, bkBulk>>
  /\ UNCHANGED notBulk

BulkNext ==
  \/ BulkBlocks
  \/ BulkCurrentOk
  \/ BulkCurrentFails
  \/ \E q \in PeriodSet : \E ok \in BOOLEAN : BulkHistorical(q, ok)
  \/ \E p \in Pairs : \E ok \in BOOLEAN : BulkFallback(p, ok)

-----------------------------------------------------------------------------
(* The pair session cache: values and reducer (contexts/PairData.tsx) *)

\* the time windows a page passes to useHourlyRateData
Windows == {"WEEK", "MONTH"}

\* the bundle getBulkPairData returns for pair p (its metrics are those of
\* ParseData; the cache is only concerned with whose bundle it is)
Bundle(p) == [id |-> p]

\* what a transaction, chart or hourly fetch for pair p resolves to
ResultFor(p) == [fetchedFor |-> p]

\* the entry {}: no pair fields, no txns, no chartData, no hourlyData
EmptyEntry ==
  [pair |-> NoVal, txns |-> NoVal, chartData |-> NoVal,
   hourlyData |-> [w \in Windows |-> NoVal]]

\* the cache of a fresh session: useReducer(reducer, {})
EmptyPairState == [a \in Pairs |-> NoVal]

\* as EntryOf, without the spread of the entry the state holds
EntryOfNone(state, address) == EmptyEntry

\* ...state?.[address], (safeAccess(state, [address]) || {})
EntryOf(state, address) ==
  IF state[address] = NoVal THEN EmptyEntry ELSE state[address]

\* { [address]: entry } without the spread of state
SetEntryOnly(state, address, entry) ==
  [a \in DOMAIN state |-> IF a = address THEN entry ELSE NoVal]

\* { ...state, [address]: entry }
SetEntry(state, address, entry) == [state EXCEPT ![address] = entry]

\* the key of the first pair for every pair of the list
AddedKeyOfFirst(topPairs, i) == topPairs[1].id

\* added[pair.id] = pair: the key the i-th pair of the list is stored under
AddedKey(topPairs, i) == topPairs[i].id

\* the local `added` after the first n pairs of topPairs
RECURSIVE Added(_, _)
Added(topPairs, n) ==
  IF n = 0 THEN EmptyPairState
  ELSE [Added(topPairs, n - 1) EXCEPT
          ![AddedKey(topPairs, n)] = [EmptyEntry EXCEPT !.pair = topPairs[n]]]

\* as Unexpected, with a default case that returns the state
UnexpectedIgnored(state, type) == state

\* the default case of the reducers: throw Error(`Unexpected action type in
\* DataContext reducer: '${type}'.`), which yields no state
Unexpected(state, type) == [threw |-> "Unexpected action type", type |-> type]

\* the reducer threw instead of returning a state
IsThrown(next) == "threw" \in DOMAIN next

\* the action objects the Provider's callbacks dispatch
Update(pairAddress, data) ==
  [type |-> "UPDATE", pairAddress |-> pairAddress, data |-> data]

UpdateTopPairs(topPairs) == [type |-> "UPDATE_TOP_PAIRS", topPairs |-> topPairs]

UpdatePairTxns(address, transactions) ==
  [type |-> "UPDATE_PAIR_TXNS", address |-> address,
   transactions |-> transactions]

UpdateChartData(address, chartData) ==
  [type |-> "UPDATE_CHART_DATA", address |-> address, chartData |-> chartData]

UpdateHourlyData(address, hourlyData, timeWindow) ==
  [type |-> "UPDATE_HOURLY_DATA", address |-> address,
   hourlyData |-> hourlyData, timeWindow |-> timeWindow]

PairReducer(state, action) ==
  CASE action.type = "UPDATE" ->
         SetEntry(state, action.pairAddress,
                  IF action.data = NoVal
                  THEN EntryOf(state, action.pairAddress)
                  ELSE [EntryOf(state, action.pairAddress) EXCEPT
                          !.pair = action.data])
    [] action.type = "UPDATE_TOP_PAIRS" ->
         LET added == Added(action.topPairs, Len(action.topPairs))
         IN  [a \in DOMAIN state |->
                IF added[a] = NoVal THEN state[a] ELSE added[a]]
    [] action.type = "UPDATE_PAIR_TXNS" ->
         SetEntry(state, action.address,
                  [EntryOf(state, action.address) EXCEPT
                     !.txns = action.transactions])
    [] action.type = "UPDATE_CHART_DATA" ->
         SetEntry(state, action.address,
                  [EntryOf(state, action.address) EXCEPT
                     !.chartData = action.chartData])
    [] action.type = "UPDATE_HOURLY_DATA" ->
         SetEntry(state, action.address,
                  [EntryOf(state, action.address) EXCEPT
                     !.hourlyData[action.timeWindow] = action.hourlyData])
    [] OTHER -> Unexpected(state, action.type)

-----------------------------------------------------------------------------
(* The pair session cache: the hooks of a pair page and the Updater *)

\* how often the page changes pairAddress or timeWindow
MaxNavigations == 1

PairHooks ==
  {"usePairData", "usePairTransactions", "usePairChartData",
   "useHourlyRateData"}

\* the hooks a page mounts: usePairData and one hook for a sub-field
PageHooks == {{"usePairData", h} : h \in PairHooks \ {"usePairData"}}

\* the timeWindow a hook's fetch closes over ("none": the hook has none)
WindowOf(hook, timeWindow) ==
  IF hook = "useHourlyRateData" THEN timeWindow ELSE "none"

\* a fetch: the hook that launched it and the key its closure captured
Fetch(hook, address, timeWindow) == <<hook, address, WindowOf(hook, timeWindow)>>

FetchIds ==
  {Fetch(h, a, w) : h \in PairHooks, a \in Pairs, w \in Windows}

\* the cache value a hook reads and lists among its effect's dependencies
DepOf(hook, state, address, timeWindow) ==
  CASE hook = "usePairData" -> state[address]
    [] hook = "usePairTransactions" -> EntryOf(state, address).txns
    [] hook = "usePairChartData" -> EntryOf(state, address).chartData
    [] hook = "useHourlyRateData" ->
         EntryOf(state, address).hourlyData[timeWindow]

\* the hooks that the render after a write schedules: those whose value
\* changed (a write of an equal value also reruns the effect, which then
\* finds the value present and does nothing)
Rerun(before, after) ==
  {h \in pgHooks :
     DepOf(h, after, pgAddr, pgWindow) # DepOf(h, before, pgAddr, pgWindow)}

\* the key under which a completed fetch writes: the one it captured
WriteKeyCurrent(current, captured) == current

WriteKey(current, captured) == captured

\* the answers of getBulkPairData (see SpecBulk)
BulkOutcomes == {"list", "undefined", "rejected"}

\* the bundles getBulkPairData returns for a list of addresses
BundlesOf(list) ==
  LET held == SelectSeq(list, LAMBDA p : p \in pgSource)
  IN  [i \in 1..Len(held) |-> Bundle(held[i])]

PairInit ==
  /\ pairState = EmptyPairState
  /\ pgSource \in SUBSET Pairs
  /\ pgHooks \in PageHooks
  /\ pgAddr \in Pairs
  /\ pgWindow = "WEEK"
  /\ pgLatestBlock = "unknown"
  /\ pgPending = pgHooks \cup {"Updater"}
  /\ pgFlight = [f \in FetchIds |-> 0]
  /\ pgLaunched = [f \in FetchIds |-> 0]
  /\ pgNavs = 0
  /\ pgLate = {}
  /\ upPc = "mount"

\* no pair page mounted
PairIdle ==
  /\ pairState = EmptyPairState
  /\ pgSource = {}
  /\ pgHooks = {}
  /\ pgAddr = "pA"
  /\ pgWindow = "WEEK"
  /\ pgLatestBlock = "unknown"
  /\ pgPending = {}
  /\ pgFlight = [f \in FetchIds |-> 0]
  /\ pgLaunched = [f \in FetchIds |-> 0]
  /\ pgNavs = 0
  /\ pgLate = {}
  /\ upPc = "done"

\* the effect of a hook: fetch if the value it read is missing
RunEffect(hook) ==
  /\ hook \in pgPending
  /\ pgPending' = pgPending \ {hook}
  /\ LET f == Fetch(hook, pgAddr, pgWindow)
     IN  IF DepOf(hook, pairState, pgAddr, pgWindow) = NoVal
         THEN /\ pgFlight' = [pgFlight EXCEPT ![f] = @ + 1]
              /\ pgLaunched' = [pgLaunched EXCEPT ![f] = @ + 1]
         ELSE UNCHANGED <<pgFlight, pgLaunched>>
  /\ UNCHANGED <<pairState, pgSource, pgHooks, pgAddr, pgWindow,
                 pgLatestBlock, pgNavs, pgLate, upPc>>
  /\ UNCHANGED notPair

PairDataEffect ==
  /\ "usePairData" \in pgHooks
  /\ RunEffect("usePairData")

PairTransactionsEffect ==
  /\ "usePairTransactions" \in pgHooks
  /\ RunEffect("usePairTransactions")

PairChartDataEffect ==
  /\ "usePairChartData" \in pgHooks
  /\ RunEffect("usePairChartData")

HourlyRateDataEffect ==
  /\ "useHourlyRateData" \in pgHooks
  /\ RunEffect("useHourlyRateData")

UpdaterEffect ==
  /\ "Updater" \in pgPending
  /\ pgPending' = pgPending \ {"Updater"}
  /\ upPc = "mount"
  /\ upPc' = "query"
  /\ UNCHANGED <<pairState, pgSource, pgHooks, pgAddr, pgWindow, pgLatestBlock,
                 pgFlight, pgLaunched, pgNavs, pgLate>>
  /\ UNCHANGED notPair

\* dispatch(action) and the render that follows it
Dispatch(action) ==
  LET after == PairReducer(pairState, action)
  IN  /\ pairState' = after
      /\ pgPending' = Rerun(pairState, after)

\* the fetch f of hook for (address, timeWindow) resolves
Lands(hook, address, timeWindow) ==
  LET f == Fetch(hook, address, timeWindow)
  IN  /\ pgPending = {}
      /\ pgFlight[f] > 0
      /\ pgFlight' = [pgFlight EXCEPT ![f] = @ - 1]
      /\ pgLate' = IF f = Fetch(hook, pgAddr, pgWindow) THEN pgLate
                    ELSE pgLate \cup {hook}

PairDataFetched(address, outcome) ==
  /\ Lands("usePairData", address, "none")
  /\ IF outcome = "list"
     THEN LET data == BundlesOf(<<address>>)
          IN  Dispatch(Update(WriteKey(pgAddr, address),
                              IF Len(data) = 0 THEN NoVal ELSE data[1]))
     ELSE UNCHANGED <<pairState, pgPending>>
  /\ UNCHANGED <<pgSource, pgHooks, pgAddr, pgWindow, pgLatestBlock,
                 pgLaunched, pgNavs,
                 upPc>>
  /\ UNCHANGED notPair

PairTransactionsFetched(address) ==
  /\ Lands("usePairTransactions", address, "none")
  /\ Dispatch(UpdatePairTxns(WriteKey(pgAddr, address), ResultFor(address)))
  /\ UNCHANGED <<pgSource, pgHooks, pgAddr, pgWindow, pgLatestBlock,
                 pgLaunched, pgNavs,
                 upPc>>
  /\ UNCHANGED notPair

PairChartDataFetched(address) ==
  /\ Lands("usePairChartData", address, "none")
  /\ Dispatch(UpdateChartData(WriteKey(pgAddr, address), ResultFor(address)))
  /\ UNCHANGED <<pgSource, pgHooks, pgAddr, pgWindow, pgLatestBlock,
                 pgLaunched, pgNavs,
                 upPc>>
  /\ UNCHANGED notPair

HourlyRateDataFetched(address, timeWindow) ==
  /\ Lands("useHourlyRateData", address, timeWindow)
  /\ Dispatch(UpdateHourlyData(WriteKey(pgAddr, address), ResultFor(address),
                               WriteKey(pgWindow, timeWindow)))
  /\ UNCHANGED <<pgSource, pgHooks, pgAddr, pgWindow, pgLatestBlock,
                 pgLaunched, pgNavs,
                 upPc>>
  /\ UNCHANGED notPair

\* PAIRS_CURRENT answers (a rejected query ends getData: nothing catches it)
UpdaterQueried(ok) ==
  /\ pgPending = {}
  /\ upPc = "query"
  /\ upPc' = IF ok THEN "bulk" ELSE "done"
  /\ UNCHANGED <<pairState, pgSource, pgHooks, pgAddr, pgWindow, pgLatestBlock,
                 pgPending, pgFlight, pgLaunched, pgNavs, pgLate>>
  /\ UNCHANGED notPair

\* getBulkPairData(formattedPairs) answers
UpdaterFetched(outcome) ==
  /\ pgPending = {}
  /\ upPc = "bulk"
  /\ upPc' = "done"
  /\ IF outcome = "list"
     THEN Dispatch(UpdateTopPairs(BundlesOf(SourcePairs)))
     ELSE UNCHANGED <<pairState, pgPending>>
  /\ UNCHANGED <<pgSource, pgHooks, pgAddr, pgWindow, pgLatestBlock, pgFlight,
                 pgLaunched, pgNavs, pgLate>>
  /\ UNCHANGED notPair

\* the page is rendered with another pairAddress or timeWindow
Navigate(address, timeWindow) ==
  /\ pgPending = {}
  /\ pgNavs < MaxNavigations
  /\ <<address, timeWindow>> # <<pgAddr, pgWindow>>
  /\ pgAddr' = address
  /\ pgWindow' = timeWindow
  /\ pgNavs' = pgNavs + 1
  /\ timeWindow # pgWindow => "useHourlyRateData" \in pgHooks
  /\ pgPending' = IF address # pgAddr THEN pgHooks
                  ELSE {"useHourlyRateData"}
  /\ UNCHANGED <<pairState, pgSource, pgHooks, pgLatestBlock, pgFlight,
                 pgLaunched,
                 pgLate, upPc>>
  /\ UNCHANGED notPair

\* updateLatestBlock(syncedBlock) of useLatestBlocks
LatestBlockUpdated ==
  /\ pgPending = {}
  /\ "useHourlyRateData" \in pgHooks
  /\ pgLatestBlock = "unknown"
  /\ pgLatestBlock' = "known"
  /\ pgPending' = {"useHourlyRateData"}
  /\ UNCHANGED <<pairState, pgSource, pgHooks, pgAddr, pgWindow, pgFlight,
                 pgLaunched,
                 pgNavs, pgLate, upPc>>
  /\ UNCHANGED notPair

PairNext ==
  \/ PairDataEffect
  \/ PairTransactionsEffect
  \/ PairChartDataEffect
  \/ HourlyRateDataEffect
  \/ UpdaterEffect
  \/ \E a \in Pairs : \E o \in BulkOutcomes : PairDataFetched(a, o)
  \/ \E a \in Pairs : PairTransactionsFetched(a)
  \/ \E a \in Pairs : PairChartDataFetched(a)
  \/ \E a \in Pairs : \E w \in Windows : HourlyRateDataFetched(a, w)
  \/ \E ok \in BOOLEAN : UpdaterQueried(ok)
  \/ \E o \in BulkOutcomes : UpdaterFetched(o)
  \/ \E a \in Pairs : \E w \in Windows : Navigate(a, w)
  \/ LatestBlockUpdated

-----------------------------------------------------------------------------
(* The global session cache: values and reducer (contexts/GlobalData.tsx) *)

\* the value of a key the state object does not have
Absent == [absent |-> TRUE]

\* a price of 0 or NaN: defined, but false in a condition
Zero == [falsy |-> TRUE]

\* a payload a fetch resolved to
GVal(n) == [value |-> n]

\* the keys the reducer writes
GlobalFields ==
  {"globalData", "transactions", "chartData", "CELO_PRICE_KEY", "oneDayPrice",
   "celoPriceChange", "allPairs", "allTokens", "topLps"}

\* the cache of a fresh session: useReducer(reducer, {})
EmptyGlobalState == [k \in GlobalFields |-> Absent]

\* state?.[key]
Read(state, key) == IF state[key] = Absent THEN NoVal ELSE state[key]

\* !value
Missing(value) == value = NoVal \/ value = Zero

\* { [key]: value } without the spread of state
SetFieldOnly(state, key, value) ==
  [k \in DOMAIN state |-> IF k = key THEN value ELSE Absent]

\* as SetField, keeping a value the key already has
SetFieldIfAbsent(state, key, value) ==
  IF state[key] = Absent THEN [state EXCEPT ![key] = value] ELSE state

\* { ...state, [key]: value }
SetField(state, key, value) == [state EXCEPT ![key] = value]

\* the action objects the Provider's callbacks dispatch
UpdateGlobal(data) == [type |-> "UPDATE", data |-> data]

UpdateTransactions(transactions) ==
  [type |-> "UPDATE_TXNS", transactions |-> transactions]

UpdateChart(daily, weekly) ==
  [type |-> "UPDATE_CHART", daily |-> daily, weekly |-> weekly]

UpdateCeloPrice(celoPrice, oneDayPrice, celoPriceChange) ==
  [type |-> "UPDATE_CELO_PRICE", celoPrice |-> celoPrice,
   oneDayPrice |-> oneDayPrice, celoPriceChange |-> celoPriceChange]

UpdateAllPairsInUbeswap(allPairs) ==
  [type |-> "UPDATE_ALL_PAIRS_IN_UBESWAP", allPairs |-> allPairs]

UpdateAllTokensInUbeswap(allTokens) ==
  [type |-> "UPDATE_ALL_TOKENS_IN_UBESWAP", allTokens |-> allTokens]

UpdateTopLps(topLps) == [type |-> "UPDATE_TOP_LPS", topLps |-> topLps]

GlobalReducer(state, action) ==
  CASE action.type = "UPDATE" -> SetField(state, "globalData", action.data)
    [] action.type = "UPDATE_TXNS" ->
         SetField(state, "transactions", action.transactions)
    [] action.type = "UPDATE_CHART" ->
         SetField(state, "chartData",
                  [daily |-> action.daily, weekly |-> action.weekly])
    [] action.type = "UPDATE_CELO_PRICE" ->
         SetField(SetField(SetField(state, "CELO_PRICE_KEY", action.celoPrice),
                           "oneDayPrice", action.oneDayPrice),
                  "celoPriceChange", action.celoPriceChange)
    [] action.type = "UPDATE_ALL_PAIRS_IN_UBESWAP" ->
         SetField(state, "allPairs", action.allPairs)
    [] action.type = "UPDATE_ALL_TOKENS_IN_UBESWAP" ->
         SetField(state, "allTokens", action.allTokens)
    [] action.type = "UPDATE_TOP_LPS" ->
         SetField(state, "topLps", action.topLps)
    [] OTHER -> Unexpected(state, action.type)

-----------------------------------------------------------------------------
(* The global session cache: useGlobalData, useCeloPrice, useGlobalTransactions *)

\* how often getGlobalData may resolve to null
MaxNulls == 1

GlobalHooks == {"useGlobalData", "useCeloPrice", "useGlobalTransactions"}

\* the awaits of fetchData, in order
Stages == <<"getGlobalData", "getAllPairsOnUbeswap", "getAllTokensOnUbeswap">>

StageSet == {Stages[i] : i \in 1..Len(Stages)}

\* the fetch rounds of useGlobalData that are in flight
RoundsInFlight == SumSeq([i \in 1..Len(Stages) |-> glRounds[Stages[i]]])

\* the hooks that the render after a dispatch schedules: useGlobalData lists
\* the whole state among its dependencies, the others the value they read
GlobalRerun(before, after) ==
  {"useGlobalData"}
    \cup (IF Read(after, "CELO_PRICE_KEY") # Read(before, "CELO_PRICE_KEY")
          THEN {"useCeloPrice"} ELSE {})
    \cup (IF Read(after, "transactions") # Read(before, "transactions")
          THEN {"useGlobalTransactions"} ELSE {})

GlobalInit ==
  /\ gState = EmptyGlobalState
  /\ glPending = GlobalHooks
  /\ glRounds = [s \in StageSet |-> 0]
  /\ glFlight = [h \in GlobalHooks \ {"useGlobalData"} |-> 0]
  /\ glNulls = 0

\* no global page mounted
GlobalIdle ==
  /\ gState = EmptyGlobalState
  /\ glPending = {}
  /\ glRounds = [s \in StageSet |-> 0]
  /\ glFlight = [h \in GlobalHooks \ {"useGlobalData"} |-> 0]
  /\ glNulls = 0

\* useGlobalData's effect: if (!data) fetchData()
GlobalDataEffect ==
  /\ "useGlobalData" \in glPending
  /\ glPending' = glPending \ {"useGlobalData"}
  /\ glRounds' = IF Missing(Read(gState, "globalData"))
                 THEN [glRounds EXCEPT !["getGlobalData"] = @ + 1]
                 ELSE glRounds
  /\ UNCHANGED <<gState, glFlight, glNulls>>
  /\ UNCHANGED notGlobal

\* useCeloPrice's effect: if (!celoPrice) fetch
CeloPriceEffect ==
  /\ "useCeloPrice" \in glPending
  /\ glPending' = glPending \ {"useCeloPrice"}
  /\ glFlight' = IF Missing(Read(gState, "CELO_PRICE_KEY"))
                 THEN [glFlight EXCEPT !["useCeloPrice"] = @ + 1]
                 ELSE glFlight
  /\ UNCHANGED <<gState, glRounds, glNulls>>
  /\ UNCHANGED notGlobal

\* useGlobalTransactions' effect: if (!transactions) fetch
GlobalTransactionsEffect ==
  /\ "useGlobalTransactions" \in glPending
  /\ glPending' = glPending \ {"useGlobalTransactions"}
  /\ glFlight' = IF Missing(Read(gState, "transactions"))
                 THEN [glFlight EXCEPT !["useGlobalTransactions"] = @ + 1]
                 ELSE glFlight
  /\ UNCHANGED <<gState, glRounds, glNulls>>
  /\ UNCHANGED notGlobal

\* dispatch(action) and the render that follows it
GlobalDispatch(action) ==
  LET after == GlobalReducer(gState, action)
  IN  /\ gState' = after
      /\ glPending' = GlobalRerun(gState, after)

\* a round's await of stage i resolves: the round goes on to the next await
Advances(i) ==
  /\ glPending = {}
  /\ glRounds[Stages[i]] > 0
  /\ glRounds' = IF i < Len(Stages)
                 THEN [glRounds EXCEPT ![Stages[i]] = @ - 1,
                                       ![Stages[i + 1]] = @ + 1]
                 ELSE [glRounds EXCEPT ![Stages[i]] = @ - 1]

\* getGlobalData resolves: if (globalData) update(globalData)
GlobalDataFetched(globalData) ==
  /\ Advances(1)
  /\ globalData = NoVal => glNulls < MaxNulls
  /\ glNulls' = IF globalData = NoVal THEN glNulls + 1 ELSE glNulls
  /\ IF globalData # NoVal
     THEN GlobalDispatch(UpdateGlobal(globalData))
     ELSE UNCHANGED <<gState, glPending>>
  /\ UNCHANGED glFlight
  /\ UNCHANGED notGlobal

\* getAllPairsOnUbeswap resolves (to undefined when a page query failed)
AllPairsFetched(allPairs) ==
  /\ Advances(2)
  /\ GlobalDispatch(UpdateAllPairsInUbeswap(allPairs))
  /\ UNCHANGED <<glFlight, glNulls>>
  /\ UNCHANGED notGlobal

\* getAllTokensOnUbeswap resolves (to undefined when a page query failed)
AllTokensFetched(allTokens) ==
  /\ Advances(3)
  /\ GlobalDispatch(UpdateAllTokensInUbeswap(allTokens))
  /\ UNCHANGED <<glFlight, glNulls>>
  /\ UNCHANGED notGlobal

\* getCeloPrice resolves (to 0 or NaN when the current price is unavailable)
CeloPriceFetched(price) ==
  /\ glPending = {}
  /\ glFlight["useCeloPrice"] > 0
  /\ glFlight' = [glFlight EXCEPT !["useCeloPrice"] = @ - 1]
  /\ GlobalDispatch(UpdateCeloPrice(price, price, Zero))
  /\ UNCHANGED <<glRounds, glNulls>>
  /\ UNCHANGED notGlobal

\* getGlobalTransactions resolves
GlobalTransactionsFetched ==
  /\ glPending = {}
  /\ glFlight["useGlobalTransactions"] > 0
  /\ glFlight' = [glFlight EXCEPT !["useGlobalTransactions"] = @ - 1]
  /\ GlobalDispatch(UpdateTransactions(GVal(1)))
  /\ UNCHANGED <<glRounds, glNulls>>
  /\ UNCHANGED notGlobal

GlobalNext ==
  \/ GlobalDataEffect
  \/ CeloPriceEffect
  \/ GlobalTransactionsEffect
  \/ \E d \in {NoVal, GVal(1)} : GlobalDataFetched(d)
  \/ \E l \in {NoVal, GVal(1)} : AllPairsFetched(l)
  \/ \E l \in {NoVal, GVal(1)} : AllTokensFetched(l)
  \/ \E p \in {Zero, GVal(1)} : CeloPriceFetched(p)
  \/ GlobalTransactionsFetched

-----------------------------------------------------------------------------
(* The Application context's reducer (contexts/Application.tsx) *)

\* the keys of the application state
ApplicationFields ==
  {"CURRENCY", "TIME_KEY", "SESSION_START", "LATEST_BLOCK", "HEAD_BLOCK",
   "SUPPORTED_TOKENS"}

\* INITIAL_STATE: 'USD' and timeframeOptions.ALL_TIME, the other keys unset
INITIAL_STATE ==
  [k \in ApplicationFields |->
     IF k \in {"CURRENCY", "TIME_KEY"} THEN GVal(0) ELSE Absent]

\* the action objects the Provider's callbacks dispatch
UpdateCurrency(currency) == [type |-> "UPDATE", currency |-> currency]

UpdateTimeframe(newTimeFrame) ==
  [type |-> "UPDATE_TIMEFRAME", newTimeFrame |-> newTimeFrame]

UpdateSessionStart(timestamp) ==
  [type |-> "UPDATE_SESSION_START", timestamp |-> timestamp]

UpdateLatestBlock(block) == [type |-> "UPDATE_LATEST_BLOCK", block |-> block]

UpdateHeadBlock(block) == [type |-> "UPDATE_HEAD_BLOCK", block |-> block]

UpdateSupportedTokens(supportedTokens) ==
  [type |-> "UPDATED_SUPPORTED_TOKENS", supportedTokens |-> supportedTokens]

ApplicationReducer(state, action) ==
  CASE action.type = "UPDATE" -> SetField(state, "CURRENCY", action.currency)
    [] action.type = "UPDATE_TIMEFRAME" ->
         SetField(state, "TIME_KEY", action.newTimeFrame)
    [] action.type = "UPDATE_SESSION_START" ->
         SetField(state, "SESSION_START", action.timestamp)
    [] action.type = "UPDATE_LATEST_BLOCK" ->
         SetField(state, "LATEST_BLOCK", action.block)
    [] action.type = "UPDATE_HEAD_BLOCK" ->
         SetField(state, "HEAD_BLOCK", action.block)
    [] action.type = "UPDATED_SUPPORTED_TOKENS" ->
         SetField(state, "SUPPORTED_TOKENS", action.supportedTokens)
    [] OTHER -> Unexpected(state, action.type)

\* no dispatch yet
DispatchIdle ==
  /\ appState = INITIAL_STATE
  /\ rdLast = NoVal
  /\ rdCount = 0

-----------------------------------------------------------------------------
(* The two reducers under arbitrary dispatches *)

\* the payloads of the pair cache's actions
Bundles == {Bundle(p) : p \in Pairs}

BundleLists == UNION {[1..n -> Bundles] : n \in 0..Len(SourcePairs)}

Results == {ResultFor(p) : p \in Pairs}

\* the payloads of the global cache's actions
GlobalPayloads == {NoVal, GVal(1)}

ReducersInit ==
  /\ rdContext \in {"PairData", "GlobalData"}
  /\ pairState = EmptyPairState
  /\ gState = EmptyGlobalState
  /\ DispatchIdle

\* no dispatch
ReducersIdle == rdContext = "none" /\ DispatchIdle

\* one dispatch to the reducer of contexts/PairData.tsx
PairReducerStep ==
  /\ rdContext = "PairData"
  /\ \/ \E a \in Pairs : \E d \in Bundles \cup {NoVal} :
          pairState' = PairReducer(pairState, Update(a, d))
     \/ \E l \in BundleLists :
          pairState' = PairReducer(pairState, UpdateTopPairs(l))
     \/ \E a \in Pairs : \E t \in Results :
          pairState' = PairReducer(pairState, UpdatePairTxns(a, t))
     \/ \E a \in Pairs : \E c \in Results :
          pairState' = PairReducer(pairState, UpdateChartData(a, c))
     \/ \E a \in Pairs : \E h \in Results : \E w \in Windows :
          pairState' = PairReducer(pairState, UpdateHourlyData(a, h, w))
  /\ UNCHANGED <<pgSource, pgHooks, pgAddr, pgWindow, pgLatestBlock, pgPending,
                 pgFlight, pgLaunched, pgNavs, pgLate, upPc>>
  /\ UNCHANGED <<chartVars, bulkVars, globalVars, rdContext, dispatchVars, callVars>>

\* one dispatch to the reducer of contexts/GlobalData.tsx
GlobalReducerStep ==
  /\ rdContext = "GlobalData"
  /\ \/ \E d \in GlobalPayloads :
          gState' = GlobalReducer(gState, UpdateGlobal(d))
     \/ \E t \in GlobalPayloads :
          gState' = GlobalReducer(gState, UpdateTransactions(t))
     \/ \E d \in GlobalPayloads : \E w \in GlobalPayloads :
          gState' = GlobalReducer(gState, UpdateChart(d, w))
     \/ \E p \in GlobalPayloads \cup {Zero} : \E o \in GlobalPayloads :
          gState' = GlobalReducer(gState, UpdateCeloPrice(p, o, Zero))
     \/ \E l \in GlobalPayloads :
          gState' = GlobalReducer(gState, UpdateAllPairsInUbeswap(l))
     \/ \E l \in GlobalPayloads :
          gState' = GlobalReducer(gState, UpdateAllTokensInUbeswap(l))
     \/ \E l \in GlobalPayloads :
          gState' = GlobalReducer(gState, UpdateTopLps(l))
  /\ UNCHANGED <<glPending, glRounds, glFlight, glNulls>>
  /\ UNCHANGED <<chartVars, bulkVars, pairVars, rdContext, dispatchVars, callVars>>

ReducersNext == PairReducerStep \/ GlobalReducerStep

-----------------------------------------------------------------------------
(* Dispatches to one reducer, the last one on record *)

\* how many dispatches a session makes
MaxDispatches == 3

\* the actions the callbacks of the PairData Provider can dispatch
PairActions ==
  {Update(a, d) : a \in Pairs, d \in Bundles \cup {NoVal}}
    \cup {UpdateTopPairs(l) : l \in BundleLists}
    \cup {UpdatePairTxns(a, t) : a \in Pairs, t \in Results}
    \cup {UpdateChartData(a, c) : a \in Pairs, c \in Results}
    \cup {UpdateHourlyData(a, h, w) : a \in Pairs, h \in Results, w \in Windows}

\* those of the GlobalData Provider
GlobalActions ==
  {UpdateGlobal(d) : d \in GlobalPayloads}
    \cup {UpdateTransactions(t) : t \in GlobalPayloads}
    \cup {UpdateChart(d, GVal(1)) : d \in GlobalPayloads}
    \cup {UpdateCeloPrice(p, o, Zero) :
            p \in GlobalPayloads \cup {Zero}, o \in GlobalPayloads}
    \cup {UpdateAllPairsInUbeswap(l) : l \in GlobalPayloads}
    \cup {UpdateAllTokensInUbeswap(l) : l \in GlobalPayloads}
    \cup {UpdateTopLps(l) : l \in GlobalPayloads}

\* those of the Application Provider
ApplicationPayloads == {GVal(1), GVal(2)}

ApplicationActions ==
  {UpdateCurrency(v) : v \in ApplicationPayloads}
    \cup {UpdateTimeframe(v) : v \in ApplicationPayloads}
    \cup {UpdateSessionStart(v) : v \in ApplicationPayloads}
    \cup {UpdateLatestBlock(v) : v \in ApplicationPayloads}
    \cup {UpdateHeadBlock(v) : v \in ApplicationPayloads}
    \cup {UpdateSupportedTokens(v) : v \in ApplicationPayloads}

\* actions no callback builds: a type no reducer names, and types another
\* context's reducer names
OtherActions(named) ==
  {[type |-> t] : t \in {"RESET", "UPDATE_TXNS", "UPDATE_TIMEFRAME",
                         "UPDATE_TOP_PAIRS"} \ named}

TypesOf(actions) == {a.type : a \in actions}

DispatchInit ==
  /\ rdContext \in {"PairData", "GlobalData", "Application"}
  /\ pairState = EmptyPairState
  /\ gState = EmptyGlobalState
  /\ DispatchIdle

\* the record of a dispatch of `action` in `state`, the reducer giving `next`
Dispatched(state, action, next) ==
  [action |-> action, before |-> state, threw |-> IsThrown(next)]

\* the state after a dispatch: that the reducer returned, and the one before
\* when it threw
StateAfter(state, next) == IF IsThrown(next) THEN state ELSE next

\* one dispatch to the reducer of contexts/PairData.tsx
DispatchToPairData ==
  /\ rdContext = "PairData"
  /\ rdCount < MaxDispatches
  /\ \E action \in PairActions \cup OtherActions(TypesOf(PairActions)) :
       LET next == PairReducer(pairState, action)
       IN  /\ pairState' = StateAfter(pairState, next)
           /\ rdLast' = Dispatched(pairState, action, next)
  /\ rdCount' = rdCount + 1
  /\ UNCHANGED <<pgSource, pgHooks, pgAddr, pgWindow, pgLatestBlock, pgPending,
                 pgFlight, pgLaunched, pgNavs, pgLate, upPc>>
  /\ UNCHANGED <<chartVars, bulkVars, globalVars, rdContext, appState, callVars>>

\* one dispatch to the reducer of contexts/GlobalData.tsx
DispatchToGlobalData ==
  /\ rdContext = "GlobalData"
  /\ rdCount < MaxDispatches
  /\ \E action \in GlobalActions \cup OtherActions(TypesOf(GlobalActions)) :
       LET next == GlobalReducer(gState, action)
       IN  /\ gState' = StateAfter(gState, next)
           /\ rdLast' = Dispatched(gState, action, next)
  /\ rdCount' = rdCount + 1
  /\ UNCHANGED <<glPending, glRounds, glFlight, glNulls>>
  /\ UNCHANGED <<chartVars, bulkVars, pairVars, rdContext, appState, callVars>>

\* one dispatch to the reducer of contexts/Application.tsx
DispatchToApplication ==
  /\ rdContext = "Application"
  /\ rdCount < MaxDispatches
  /\ \E action \in ApplicationActions
                     \cup OtherActions(TypesOf(ApplicationActions)) :
       LET next == ApplicationReducer(appState, action)
       IN  /\ appState' = StateAfter(appState, next)
           /\ rdLast' = Dispatched(appState, action, next)
  /\ rdCount' = rdCount + 1
  /\ UNCHANGED <<chartVars, bulkVars, pairVars, globalVars, rdContext, callVars>>

DispatchNext ==
  DispatchToPairData \/ DispatchToGlobalData \/ DispatchToApplication


-----------------------------------------------------------------------------
(* One call of a data function *)

\* no call
CallIdle ==
  /\ fnPc = "idle"
  /\ fnSource = NoVal
  /\ fnLocals = NoVal
  /\ fnResult = Pending

\* the call returned value
Returned(value) == [returned |-> value]

-----------------------------------------------------------------------------
(* getGlobalData (contexts/GlobalData.tsx) *)

\* the reference times of the four time travel queries, and their age in days
GlobalPeriods == <<"oneDay", "twoDay", "oneWeek", "twoWeek">>

GlobalPeriodSet == {GlobalPeriods[i] : i \in 1..Len(GlobalPeriods)}

AgeOf(period) ==
  CASE period = "now" -> 0
    [] period = "oneDay" -> 1
    [] period = "twoDay" -> 2
    [] period = "oneWeek" -> 7
    [] period = "twoWeek" -> 14

\* the daily growth of the factory's totals
Rates == {1, 3}

\* ubeswapFactories[0] as the source holds it at a reference time: the totals
\* grow with time, and the factory has no transaction two weeks back
FactoryAt(rate, period) ==
  [id |-> "factory",
   totalVolumeUSD |-> 100 + rate * (14 - AgeOf(period)),
   totalLiquidityUSD |-> 80 - rate * AgeOf(period),
   txCount |-> rate * (14 - AgeOf(period))]

\* how a query may answer: with the factory ("snapshot"), with an empty
\* ubeswapFactories list ("none"), with no data at all (errorPolicy 'ignore'
\* after a GraphQL error: "noData"), or not at all ("rejects")
QueryAnswers == {"snapshot", "none", "noData", "rejects"}

\* the answer of the GLOBAL_DATA query for a period: without a resolved block
\* the variable $block: Int! is not provided and the source holds no answer
HistoricalAnswer(source, period) ==
  IF period \in source.found \/ source.historical[period] = "rejects"
  THEN source.historical[period]
  ELSE "noData"

\* the statement `xData = xResult.data?.ubeswapFactories[0]` (for oneDay:
\* `?.ubeswapFactories?.[0]`): the value assigned, unless the await threw
HistoricalData(source, period) ==
  LET answer == HistoricalAnswer(source, period)
  IN  [threw |-> answer = "rejects",
       value |-> IF answer = "snapshot" THEN FactoryAt(source.rate, period)
                 ELSE NoVal]

\* getPercentChange(valueNow, value24HoursAgo) of utils: the two-point
\* percent change, 0 when it is not computable
GetPercentChange(valueNow, value24HoursAgo) ==
  IF value24HoursAgo = 0 THEN 0
  ELSE ((valueNow - value24HoursAgo) * 100) \div value24HoursAgo

\* `x.txCount ? x.txCount : '0'`
TxCountOrZero(txCount) == IF txCount # 0 THEN txCount ELSE 0

\* the names of additionalData
DerivedFields ==
  {"oneDayVolumeUSD", "oneWeekVolume", "weeklyVolumeChange", "volumeChangeUSD",
   "liquidityChangeUSD", "oneDayTxns", "txnChange"}

\* { ...data, ...additionalData }
WithAdditionalData(data, oneDayData, twoDayData, oneWeekData, twoWeekData) ==
  LET day == Get2DayPercentChange(data.totalVolumeUSD,
                                  oneDayData.totalVolumeUSD,
                                  twoDayData.totalVolumeUSD)
      week == Get2DayPercentChange(data.totalVolumeUSD,
                                   oneWeekData.totalVolumeUSD,
                                   twoWeekData.totalVolumeUSD)
      txns == Get2DayPercentChange(data.txCount,
                                   TxCountOrZero(oneDayData.txCount),
                                   TxCountOrZero(twoDayData.txCount))
  IN  [id |-> data.id,
       totalVolumeUSD |-> data.totalVolumeUSD,
       totalLiquidityUSD |-> data.totalLiquidityUSD,
       txCount |-> data.txCount,
       oneDayVolumeUSD |-> day[1],
       volumeChangeUSD |-> day[2],
       oneWeekVolume |-> week[1],
       weeklyVolumeChange |-> week[2],
       oneDayTxns |-> txns[1],
       txnChange |-> txns[2],
       liquidityChangeUSD |-> GetPercentChange(data.totalLiquidityUSD,
                                               oneDayData.totalLiquidityUSD)]

\* as GlobalMetrics, with a one-week-old snapshot that is missing read as the
\* current one
GlobalMetricsLenient(data, oneDayData, twoDayData, oneWeekData, twoWeekData) ==
  IF data # NoVal /\ oneDayData # NoVal /\ twoDayData # NoVal
     /\ twoWeekData # NoVal
  THEN WithAdditionalData(data, oneDayData, twoDayData,
                          IF oneWeekData = NoVal THEN data ELSE oneWeekData,
                          twoWeekData)
  ELSE data

\* `if (data && oneDayData && twoDayData && twoWeekData) { ... }` and the
\* `return data` after the catch: oneWeekData is not among the conditions, and
\* reading oneWeekData.totalVolumeUSD of a missing snapshot is a TypeError the
\* catch block swallows
GlobalMetrics(data, oneDayData, twoDayData, oneWeekData, twoWeekData) ==
  IF data # NoVal /\ oneDayData # NoVal /\ twoDayData # NoVal
     /\ twoWeekData # NoVal
  THEN IF oneWeekData = NoVal THEN data
       ELSE WithAdditionalData(data, oneDayData, twoDayData, oneWeekData,
                               twoWeekData)
  ELSE data

\* getGlobalData(): the current query, then the four historical queries in
\* order, all inside one try block whose catch falls through to `return data`
GetGlobalData(source) ==
  IF source.current \in {"rejects", "noData"} THEN NoVal
  ELSE LET data == IF source.current = "snapshot"
                   THEN FactoryAt(source.rate, "now") ELSE NoVal
           got == [p \in GlobalPeriodSet |-> HistoricalData(source, p)]
       IN  IF \E p \in GlobalPeriodSet : got[p].threw THEN data
           ELSE GlobalMetrics(data, got["oneDay"].value, got["twoDay"].value,
                              got["oneWeek"].value, got["twoWeek"].value)

\* the data sources of a call: the blocks the resolver finds, and the answers
GlobalSources ==
  [rate : Rates, found : SUBSET GlobalPeriodSet, current : QueryAnswers,
   historical : [GlobalPeriodSet -> {"snapshot", "none", "rejects"}]]

GlobalDataInit ==
  /\ fnPc = "call"
  /\ fnSource \in GlobalSources
  /\ fnLocals = NoVal
  /\ fnResult = Pending

GlobalDataCall ==
  /\ fnPc = "call"
  /\ fnPc' = "done"
  /\ fnResult' = Returned(GetGlobalData(fnSource))
  /\ UNCHANGED <<fnSource, fnLocals>>
  /\ UNCHANGED notCall

GlobalDataNext == GlobalDataCall

-----------------------------------------------------------------------------
(* getCeloPrice (contexts/GlobalData.tsx) *)

\* the values of a JavaScript number: a number, or not a number
Float(number) == [number |-> number]

NaN == [nan |-> TRUE]

\* a decimal text of the source: the number written and its trailing zeros
Decimal(number, zeros) == [number |-> number, zeros |-> zeros]

NaNText == [text |-> "NaN"]

\* parseFloat(text)
ParseFloat(text) ==
  IF text = NoVal \/ text = NaNText THEN NaN ELSE Float(text.number)

\* number.toString()
NumberToString(number) ==
  IF number = NaN THEN NaNText ELSE Decimal(number.number, 0)

\* getPercentChange(valueNow, value24HoursAgo) of utils on texts: both are
\* parsed, and the change is 0 when it is not a finite number
GetPercentChangeOfTexts(valueNow, value24HoursAgo) ==
  IF ParseFloat(valueNow) = NaN \/ ParseFloat(value24HoursAgo) = NaN THEN 0
  ELSE GetPercentChange(ParseFloat(valueNow).number,
                        ParseFloat(value24HoursAgo).number)

\* the celoPrice texts of the bundle, in cents
PriceTexts == {Decimal(n, z) : n \in {50, 100, 150}, z \in {0, 1}}

\* bundles[0]?.celoPrice of an answer, absent when there is no such bundle
BundlePrice(answer, price) == IF answer = "bundle" THEN price ELSE NoVal

\* as OneDayBackPrice, falling back to zero
OneDayBackPriceZero(historicalPrice, celoPrice) ==
  IF historicalPrice # NoVal THEN historicalPrice
  ELSE NumberToString(Float(0))

\* `resultOneDay?.data?.bundles[0]?.celoPrice ?? celoPrice.toString()`
OneDayBackPrice(historicalPrice, celoPrice) ==
  IF historicalPrice # NoVal THEN historicalPrice ELSE NumberToString(celoPrice)

\* getCeloPrice(): [celoPrice, celoPriceOneDay, priceChangeCelo]; each of the
\* two try blocks leaves its variables at 0 when its await rejects
GetCeloPrice(source) ==
  LET celoPrice ==
        IF source.current = "rejects" THEN Float(0)
        ELSE ParseFloat(BundlePrice(source.current, source.price))
  IN  IF source.block = "found" /\ source.historical = "rejects"
      THEN <<celoPrice, Float(0), 0>>
      ELSE LET oneDayBackPrice ==
                 OneDayBackPrice(
                   IF source.block = "found"
                   THEN BundlePrice(source.historical, source.oneDayPrice)
                   ELSE NoVal,
                   celoPrice)
           IN  <<celoPrice,
                 ParseFloat(oneDayBackPrice),
                 GetPercentChangeOfTexts(NumberToString(celoPrice),
                                         oneDayBackPrice)>>

\* how a bundle query may answer: with the bundle, with an empty bundles list,
\* with no data at all, or not at all
BundleAnswers == {"bundle", "none", "noData", "rejects"}

CeloPriceSources ==
  [current : BundleAnswers, price : PriceTexts, block : {"found", "none"},
   historical : BundleAnswers, oneDayPrice : PriceTexts]

CeloPriceInit ==
  /\ fnPc = "call"
  /\ fnSource \in CeloPriceSources
  /\ fnLocals = NoVal
  /\ fnResult = Pending

CeloPriceCall ==
  /\ fnPc = "call"
  /\ fnPc' = "done"
  /\ fnResult' = Returned(GetCeloPrice(fnSource))
  /\ UNCHANGED <<fnSource, fnLocals>>
  /\ UNCHANGED notCall

CeloPriceNext == CeloPriceCall

-----------------------------------------------------------------------------
(* useTopLps (contexts/GlobalData.tsx) *)

\* `slice(0, 99)`: the pairs whose positions are fetched (99 in the code)
TopPairsCount == 2

\* `first: 10` of TOP_LPS_PER_PAIRS (10 in the code)
PositionsFirst == 2

\* `splice(0, 100)`: the length of the list written (100 in the code)
TopLpsCount == 3

\* Object.keys(allPairs), in insertion order
LpPairs == <<"pA", "pB", "pC">>

LpPairSet == {LpPairs[i] : i \in 1..Len(LpPairs)}

\* the decimal digits of a natural number: the text the source holds
RECURSIVE Digits(_)
Digits(n) == IF n < 10 THEN <<n>> ELSE Append(Digits(n \div 10), n % 10)

\* a > b on two texts: the comparison of strings, character by character
TextGreater(a, b) ==
  LET differ == {i \in 1..Len(a) : i > Len(b) \/ a[i] # b[i]}
  IN  /\ differ # {}
      /\ LET i == CHOOSE k \in differ : \A j \in differ : k <= j
         IN  i > Len(b) \/ a[i] > b[i]

\* Array.prototype.sort with a comparator that is negative exactly when
\* `first(x, y)` holds: x is put before the first element it must precede
InsertAt(sorted, x, precedes) ==
  LET pos == IF precedes = {} THEN Len(sorted) + 1
             ELSE CHOOSE k \in precedes : \A j \in precedes : k <= j
  IN  SubSeq(sorted, 1, pos - 1) \o <<x>> \o SubSeq(sorted, pos, Len(sorted))

\* keys.sort((a, b) => allPairs[a].reserveUSD > allPairs[b].reserveUSD ? -1 : 1)
RECURSIVE SortByReserve(_, _)
SortByReserve(keys, allPairs) ==
  IF keys = <<>> THEN <<>>
  ELSE LET sorted == SortByReserve(SubSeq(keys, 1, Len(keys) - 1), allPairs)
           x == keys[Len(keys)]
       IN  InsertAt(sorted, x,
                    {i \in 1..Len(sorted) :
                       TextGreater(Digits(allPairs[x].reserveUSD),
                                   Digits(allPairs[sorted[i]].reserveUSD))})

\* the first `count` elements of a list
FirstOf(list, count) ==
  SubSeq(list, 1, IF Len(list) < count THEN Len(list) ELSE count)

\* topPairs
TopPairs(allPairs) == FirstOf(SortByReserve(LpPairs, allPairs), TopPairsCount)

\* the element of topLpLists of a pair: the positions of the answer, and
\* nothing when the query rejected (the empty catch) or brought no data
LiquidityPositions(source, pair) ==
  IF source.answers[pair] = "positions"
  THEN [liquidityPositions |->
          [i \in 1..Len(source.positions[pair]) |->
             [user |-> i, pair |-> [id |-> pair],
              liquidityTokenBalance |-> source.positions[pair][i]]]]
  ELSE NoVal

\* as TopLpLists, with one query that failed failing them all
TopLpListsAllOrNone(source, topPairs) ==
  [i \in 1..Len(topPairs) |->
     IF \A j \in 1..Len(topPairs) : LiquidityPositions(source, topPairs[j]) # NoVal
     THEN LiquidityPositions(source, topPairs[i])
     ELSE NoVal]

\* await Promise.all(topPairs.map(async (pair) => { try ... catch (e) {} }))
TopLpLists(source, topPairs) ==
  [i \in 1..Len(topPairs) |-> LiquidityPositions(source, topPairs[i])]

\* the entry pushed for a position: its share of the pair's reserve (the
\* reserves are multiples of the total supply, so the division is exact)
LpEntry(entry, allPairs) ==
  LET pairData == allPairs[entry.pair.id]
  IN  [user |-> entry.user,
       pairAddress |-> entry.pair.id,
       usd |-> (entry.liquidityTokenBalance * pairData.reserveUSD)
                 \div pairData.totalSupply]

\* topLpLists.filter((i) => !!i).map((list) => list.map(... topLps.push ...))
RECURSIVE PushAll(_, _)
PushAll(topLpLists, allPairs) ==
  IF topLpLists = <<>> THEN <<>>
  ELSE LET list == topLpLists[Len(topLpLists)]
           rest == PushAll(SubSeq(topLpLists, 1, Len(topLpLists) - 1), allPairs)
       IN  IF list = NoVal THEN rest
           ELSE rest \o [i \in 1..Len(list.liquidityPositions) |->
                            LpEntry(list.liquidityPositions[i], allPairs)]

\* topLps.sort((a, b) => (a.usd > b.usd ? -1 : 1))
RECURSIVE SortByUsd(_)
SortByUsd(topLps) ==
  IF topLps = <<>> THEN <<>>
  ELSE LET sorted == SortByUsd(SubSeq(topLps, 1, Len(topLps) - 1))
           x == topLps[Len(topLps)]
       IN  InsertAt(sorted, x, {i \in 1..Len(sorted) : x.usd > sorted[i].usd})

\* as Shorter, without the truncation
ShorterAll(sorted) == sorted

\* sorted.splice(0, 100)
Shorter(sorted) == FirstOf(sorted, TopLpsCount)

\* fetchData() up to the list it hands to updateTopLps
TopLps(source) ==
  Shorter(SortByUsd(PushAll(TopLpLists(source, TopPairs(source.allPairs)),
                            source.allPairs)))

\* the reserves of the pairs, the total supply of their liquidity token and
\* the balances of their positions
Reserves == {20, 100, 300}

TotalSupply == 10

Balances == {2, 5, 8}

\* the answers of TOP_LPS_PER_PAIRS: at most PositionsFirst positions by
\* descending balance
PositionLists ==
  {list \in UNION {[1..n -> Balances] : n \in 0..PositionsFirst} :
     \A i \in 1..(Len(list) - 1) : list[i] > list[i + 1]}

TopLpsSources ==
  [allPairs : {f \in [LpPairSet -> [reserveUSD : Reserves,
                                    totalSupply : {TotalSupply}]] :
                 \A p, q \in LpPairSet :
                   p # q => f[p].reserveUSD # f[q].reserveUSD},
   answers : [LpPairSet -> {"positions", "noData", "rejects"}],
   positions : [LpPairSet -> PositionLists]]

TopLpsInit ==
  /\ fnPc = "call"
  /\ fnSource \in TopLpsSources
  /\ fnLocals = NoVal
  /\ fnResult = Pending

\* the effect of useTopLps and the fetchData() it starts, which shares no
\* state with anything until it dispatches the list
TopLpsFetch ==
  /\ fnPc = "call"
  /\ Missing(Read(gState, "topLps"))
  /\ LET shorter == TopLps(fnSource)
     IN  /\ gState' = GlobalReducer(gState, UpdateTopLps(GVal(shorter)))
         /\ fnResult' = Returned(shorter)
  /\ fnPc' = "done"
  /\ UNCHANGED <<fnSource, fnLocals, glPending, glRounds, glFlight, glNulls>>
  /\ UNCHANGED <<chartVars, bulkVars, pairVars, rdContext, dispatchVars>>

TopLpsNext == TopLpsFetch

-----------------------------------------------------------------------------
(* getAllPairsOnUbeswap (contexts/GlobalData.tsx) *)

\* `first: 500` of ALL_PAIRS and the step of skipCount (500 in the code)
PAIRS_TO_FETCH == 2

\* the largest number of pairs the source holds
MaxAllPairs == 9

\* how many page queries may come back without data
MaxNoData == 3

\* the pairs of the source by descending trackedReserveUSD
AllPairsOf(count) == [i \in 1..count |-> [id |-> i]]

\* pairs(first: 500, skip: $skip, orderBy: trackedReserveUSD)
QueryAllPairs(count, skip) ==
  SubSeq(AllPairsOf(count), skip + 1,
         IF skip + PAIRS_TO_FETCH < count THEN skip + PAIRS_TO_FETCH ELSE count)

\* as AllFound, stopping only after a page shorter than the page size
AllFoundAfterShortPage(data, pairs) ==
  data # NoVal /\ Len(data.pairs) < PAIRS_TO_FETCH

\* `result?.data?.pairs.length < PAIRS_TO_FETCH || pairs.length > PAIRS_TO_FETCH`
\* with `data` absent when the answer has none (undefined < 500 is false)
AllFound(data, pairs) ==
  \/ data # NoVal /\ Len(data.pairs) < PAIRS_TO_FETCH
  \/ Len(pairs) > PAIRS_TO_FETCH

\* pairs.concat(result?.data?.pairs): concat(undefined) appends undefined
Concat(pairs, data) ==
  IF data = NoVal THEN Append(pairs, NoVal) ELSE pairs \o data.pairs

AllPairsInit ==
  /\ fnPc = "paging"
  /\ fnSource \in [count : 0..MaxAllPairs]
  /\ fnLocals = [skipCount |-> 0, pairs |-> <<>>, noData |-> 0]
  /\ fnResult = Pending

\* one iteration of the loop with `data` of the answer
AllPairsIteration(data) ==
  LET pairs == Concat(fnLocals.pairs, data)
  IN  /\ fnLocals' = [fnLocals EXCEPT
                        !.skipCount = @ + PAIRS_TO_FETCH,
                        !.pairs = pairs,
                        !.noData = IF data = NoVal THEN @ + 1 ELSE @]
      /\ IF AllFound(data, pairs)
         THEN fnPc' = "done" /\ fnResult' = Returned(Answer(pairs))
         ELSE fnPc' = "paging" /\ UNCHANGED fnResult
      /\ UNCHANGED fnSource
      /\ UNCHANGED notCall

\* one iteration of the loop whose query answers with its page
AllPairsPageOk ==
  /\ fnPc = "paging"
  /\ AllPairsIteration(Answer(QueryAllPairs(fnSource.count, fnLocals.skipCount)))

\* one iteration whose answer has no data (errorPolicy 'ignore')
AllPairsPageNoData ==
  /\ fnPc = "paging"
  /\ fnLocals.noData < MaxNoData
  /\ AllPairsIteration(NoVal)

\* one iteration whose query rejects: the catch logs, nothing is returned
AllPairsPageFails ==
  /\ fnPc = "paging"
  /\ fnPc' = "done"
  /\ fnResult' = Returned(NoVal)
  /\ UNCHANGED <<fnSource, fnLocals>>
  /\ UNCHANGED notCall

AllPairsNext == AllPairsPageOk \/ AllPairsPageNoData \/ AllPairsPageFails

-----------------------------------------------------------------------------
(* Two runs of an assembler against an unchanged data source *)

\* the names a token object may carry: the one of the source, and the one
\* TOKEN_OVERRIDES gives it
TokenNames == {"source", "override"}

\* updateNameData(result) of utils, which writes into result.token0: the name
\* of a token listed in TOKEN_OVERRIDES is set to the listed one
UpdateNameData(name, overridden) ==
  IF overridden THEN "override" ELSE name

\* the objects the client's cache may hand to a run (fetchPolicy
\* 'cache-first'): per pair, the token object as the source answered it or
\* the cached one as earlier runs left it
SeenNames(cached) ==
  {names \in [Pairs -> TokenNames] :
     \A p \in Pairs : names[p] \in {"source", cached[p]}}

\* the history of a pair: the snapshot of the historical bulk answer, else
\* that of the fallback query, when they answered
HistoryOf(answers, p, q) ==
  IF answers.bulk[q] /\ p \in bkList /\ ExistsAt(p, BlockOf(q))
  THEN Snapshot(p, BlockOf(q))
  ELSE IF answers.fallback[q] THEN PairData(p, BlockOf(q)) ELSE NoVal

\* getBulkPairData(pairList) with the answers of a source: the list of
\* `{ ...data, ...otherProperties }` after updateNameData, whose token0 is the
\* object of `data`
BulkPairData(answers, names) ==
  IF answers.current = "rejects" THEN NoVal
  ELSE LET current == PairsBulk(bkList, HeadBlock)
       IN  Answer([i \in 1..Len(current) |->
                     LET p == current[i].id
                     IN  [bundle |-> ParseData(current[i],
                                               HistoryOf(answers, p, "oneDay"),
                                               HistoryOf(answers, p, "twoDay"),
                                               HistoryOf(answers, p, "oneWeek")),
                          token0 |-> [name |-> UpdateNameData(
                                                 names[p],
                                                 p \in answers.overridden)]]])

\* as NamesAfter, every token object left with the override's name
NamesAfterAll(answers, names) == [p \in Pairs |-> "override"]

\* the token objects of the cache after a run of getBulkPairData
NamesAfter(answers, names) ==
  IF answers.current = "rejects" THEN names
  ELSE [p \in Pairs |->
          IF p \in bkList /\ ExistsAt(p, HeadBlock)
          THEN UpdateNameData(names[p], p \in answers.overridden)
          ELSE names[p]]

\* one run of the assembler `fn`: what it returns, and what it leaves behind
Assemble(source, names) ==
  IF source.fn = "getGlobalData"
  THEN [returned |-> GetGlobalData(source.answers), names |-> names]
  ELSE [returned |-> BulkPairData(source.answers, names),
        names |-> NamesAfter(source.answers, names)]

BulkAnswers ==
  [current : {"pairs", "rejects"}, bulk : [PeriodSet -> BOOLEAN],
   fallback : [PeriodSet -> BOOLEAN], overridden : SUBSET Pairs]

TwiceInit ==
  /\ fnPc = "call"
  /\ \/ /\ fnSource \in [fn : {"getGlobalData"}, answers : GlobalSources]
        /\ BulkIdle
     \/ /\ fnSource \in [fn : {"getBulkPairData"}, answers : BulkAnswers]
        /\ bkList \in SUBSET Pairs
        /\ bkCreated \in [Pairs -> CreationBlocks]
        /\ bkPc = "done"
        /\ BulkStart
  /\ fnLocals = [names |-> [p \in Pairs |-> "source"]]
  /\ fnResult = Returned(<<>>)

\* a run of the assembler, the first or the second
AssemblerRun ==
  /\ fnPc \in {"call", "again"}
  /\ \E names \in SeenNames(fnLocals.names) :
       LET run == Assemble(fnSource, names)
       IN  /\ fnResult' = Returned(Append(fnResult.returned, run.returned))
           /\ fnLocals' = [names |-> run.names]
  /\ fnPc' = IF fnPc = "call" THEN "again" ELSE "done"
  /\ UNCHANGED fnSource
  /\ UNCHANGED notCall

TwiceNext == AssemblerRun

-----------------------------------------------------------------------------
(* The query batcher of getHourlyRateData (contexts/PairData.tsx) *)

\* the hours of the window and the largest batch size tried
MaxHours == 5

MaxBatchSize == 6

\* the block item of an hour: `timestamps` advance by 3600 from startTime
BlockItem(hour) == [timestamp |-> 3600 * hour, number |-> 100 + 7 * hour]

\* as AliasOf, without the timestamp
AliasOfNone(block) == <<"t", 0>>

\* `t${block.timestamp}`
AliasOf(block) == <<"t", block.timestamp>>

\* pair(id, block: { number }) { token0Price token1Price } of the source
RatesAt(number) == [token0Price |-> number % 5, token1Price |-> number % 3]

\* the data of one HOURLY_PAIR_RATES(pairAddress, blocks) document: a field
\* per block of the batch, named by its alias
HourlyPairRates(blocks) ==
  [alias \in {AliasOf(blocks[i]) : i \in 1..Len(blocks)} |->
     RatesAt((CHOOSE b \in {blocks[i] : i \in 1..Len(blocks)} :
                AliasOf(b) = alias).number)]

\* the batcher's merge of a batch response into the mapping so far
Merged(fetchedData, data) ==
  [alias \in DOMAIN fetchedData \cup DOMAIN data |->
     IF alias \in DOMAIN data THEN data[alias] ELSE fetchedData[alias]]

\* the batch of `list` that starts after `skip` items
Batch(list, skip, batchSize) ==
  SubSeq(list, skip + 1,
         IF skip + batchSize < Len(list) THEN skip + batchSize ELSE Len(list))

\* splitQuery(HOURLY_PAIR_RATES, client, [pairAddress], list, batchSize) of
\* utils from `skip` on: ceil(N / B) batches, one request each, merged
RECURSIVE SplitQuery(_, _, _, _)
SplitQuery(list, batchSize, skip, fetchedData) ==
  IF skip >= Len(list) THEN fetchedData
  ELSE SplitQuery(list, batchSize, skip + batchSize,
                  Merged(fetchedData,
                         HourlyPairRates(Batch(list, skip, batchSize))))

\* the lists of blocks getBlocksFromTimestamps may resolve for the hours of
\* the window: some of the hours, in order
RECURSIVE BlocksOf(_, _)
BlocksOf(hours, hour) ==
  IF hour > MaxHours THEN <<>>
  ELSE (IF hour \in hours THEN <<BlockItem(hour)>> ELSE <<>>)
       \o BlocksOf(hours, hour + 1)

BlockLists == {BlocksOf(hours, 1) : hours \in SUBSET (1..MaxHours) \ {{}}}

SplitQueryInit ==
  /\ fnPc = "batching"
  /\ fnSource \in [blocks : BlockLists, batchSize : 1..MaxBatchSize]
  /\ fnLocals = [skip |-> 0, fetchedData |-> <<>>]
  /\ fnResult = Pending

\* the request of one batch answers and is merged; after the last batch the
\* mapping is returned
SplitQueryBatch ==
  /\ fnPc = "batching"
  /\ LET skip == fnLocals.skip + fnSource.batchSize
         fetchedData ==
           Merged(fnLocals.fetchedData,
                  HourlyPairRates(Batch(fnSource.blocks, fnLocals.skip,
                                        fnSource.batchSize)))
     IN  /\ fnLocals' = [skip |-> skip, fetchedData |-> fetchedData]
         /\ IF skip >= Len(fnSource.blocks)
            THEN fnPc' = "done" /\ fnResult' = Returned(fetchedData)
            ELSE fnPc' = "batching" /\ UNCHANGED fnResult
  /\ UNCHANGED fnSource
  /\ UNCHANGED notCall

SplitQueryNext == SplitQueryBatch

-----------------------------------------------------------------------------
(* useGlobalChartData (contexts/GlobalData.tsx) *)

\* how often the user changes the timeframe
MaxTimeframeChanges == 2

\* timeframeOptions
Timeframes == {"WEEK", "MONTH", "ALL_TIME"}

\* getTimeframe(activeWindow) of utils: the start of the window, as a day
\* number; a longer window starts earlier
GetTimeframe(window) ==
  CASE window = "WEEK" -> 30
    [] window = "MONTH" -> 20
    [] window = "ALL_TIME" -> 10

\* the two effects of the hook, in the order they are declared
ChartEffects == {"oldestDate", "fetch"}

\* chartDataDaily && chartDataWeekly
ChartCached(state) ==
  /\ state["chartData"] # Absent
  /\ ~Missing(state["chartData"].daily)
  /\ ~Missing(state["chartData"].weekly)

\* `oldestDateFetch && !(chartDataDaily && chartDataWeekly) && combinedData`
ShouldFetchChart(oldestDateFetch, state, combinedData) ==
  /\ oldestDateFetch # 0
  /\ ~ChartCached(state)
  /\ combinedData

\* as OlderNeeded, for the first window only
OlderNeededOnce(oldestDateFetch, activeWindow, startTime) ==
  oldestDateFetch = 0

\* `!oldestDateFetch || (activeWindow && startTime < oldestDateFetch)`
OlderNeeded(oldestDateFetch, activeWindow, startTime) ==
  \/ oldestDateFetch = 0
  \/ activeWindow \in Timeframes /\ startTime < oldestDateFetch

\* the hook as mounted: no oldest date (0 for undefined), every effect due;
\* `actives` records the timeframes that have been active
ChartHookInit ==
  /\ fnPc = "mounted"
  /\ fnSource = NoVal
  /\ \E window \in Timeframes :
       fnLocals = [activeWindow |-> window, oldestDateFetch |-> 0,
                   combinedData |-> FALSE, pending |-> ChartEffects,
                   flight |-> {}, changes |-> 0, actives |-> {window}]
  /\ fnResult = Pending

\* the first effect: the oldest date moves back to the window's start; the
\* state change renders again and both effects depend on it
OldestDateEffect ==
  /\ fnPc = "mounted"
  /\ "oldestDate" \in fnLocals.pending
  /\ LET startTime == GetTimeframe(fnLocals.activeWindow)
     IN  IF OlderNeeded(fnLocals.oldestDateFetch, fnLocals.activeWindow,
                        startTime)
         THEN fnLocals' = [fnLocals EXCEPT !.oldestDateFetch = startTime,
                                           !.pending = ChartEffects]
         ELSE fnLocals' = [fnLocals EXCEPT !.pending = @ \ {"oldestDate"}]
  /\ UNCHANGED <<fnPc, fnSource, fnResult>>
  /\ UNCHANGED notCall

\* the second effect: fetchData() is started with the oldest date of this
\* render
ChartFetchEffect ==
  /\ fnPc = "mounted"
  /\ fnLocals.pending = {"fetch"}
  /\ fnLocals' = [fnLocals EXCEPT
                    !.pending = {},
                    !.flight = IF ShouldFetchChart(fnLocals.oldestDateFetch,
                                                   gState, fnLocals.combinedData)
                               THEN @ \cup {fnLocals.oldestDateFetch} ELSE @]
  /\ UNCHANGED <<fnPc, fnSource, fnResult>>
  /\ UNCHANGED notCall

\* getChartData(oldestDateFetch, combinedData) resolves, to arrays even when a
\* query failed, and updateChart stores them
GlobalChartFetched ==
  /\ fnPc = "mounted"
  /\ fnLocals.pending = {}
  /\ \E start \in fnLocals.flight :
       /\ gState' = GlobalReducer(gState, UpdateChart(GVal(start), GVal(start)))
       /\ fnLocals' = [fnLocals EXCEPT !.flight = @ \ {start},
                                       !.pending = {"fetch"}]
  /\ UNCHANGED <<fnPc, fnSource, fnResult, glPending, glRounds, glFlight, glNulls>>
  /\ UNCHANGED <<chartVars, bulkVars, pairVars, rdContext, dispatchVars>>

\* useTokenChartDataCombined(offsetVolumes) has its data
CombinedDataLoaded ==
  /\ fnPc = "mounted"
  /\ fnLocals.pending = {}
  /\ ~fnLocals.combinedData
  /\ fnLocals' = [fnLocals EXCEPT !.combinedData = TRUE, !.pending = {"fetch"}]
  /\ UNCHANGED <<fnPc, fnSource, fnResult>>
  /\ UNCHANGED notCall

\* the user picks another timeframe
TimeframeChanged ==
  /\ fnPc = "mounted"
  /\ fnLocals.pending = {}
  /\ fnLocals.changes < MaxTimeframeChanges
  /\ \E window \in Timeframes \ {fnLocals.activeWindow} :
       fnLocals' = [fnLocals EXCEPT !.activeWindow = window,
                                    !.pending = {"oldestDate"},
                                    !.changes = @ + 1,
                                    !.actives = @ \cup {window}]
  /\ UNCHANGED <<fnPc, fnSource, fnResult>>
  /\ UNCHANGED notCall

ChartHookNext ==
  \/ OldestDateEffect
  \/ ChartFetchEffect
  \/ GlobalChartFetched
  \/ CombinedDataLoaded
  \/ TimeframeChanged

-----------------------------------------------------------------------------
(* useTopLps: the hook and its effect (contexts/GlobalData.tsx) *)

\* how often the component renders again for a reason of its own (another
\* field of the global or the pair context changed)
MaxRerenders == 3

\* `!topLps && allPairs && Object.keys(allPairs).length > 0`
ShouldFetchTopLps(state, allPairsLoaded) ==
  Missing(Read(state, "topLps")) /\ allPairsLoaded

\* the sources of the hook model: the reserves are fixed, each per-pair query
\* answers or rejects
TopLpsHookSources ==
  [allPairs : {[p \in LpPairSet |->
                  [reserveUSD |-> IF p = "pA" THEN 300
                                  ELSE IF p = "pB" THEN 100 ELSE 20,
                   totalSupply |-> TotalSupply]]},
   answers : [LpPairSet -> {"positions", "rejects"}],
   positions : {[p \in LpPairSet |-> <<5>>]}]

\* the hook as mounted: its first render is done and its effect is due; no
\* pair data yet
TopLpsHookInit ==
  /\ fnPc = "rendered"
  /\ fnSource \in TopLpsHookSources
  /\ fnLocals = [allPairs |-> FALSE, effectDue |-> TRUE, flight |-> 0,
                 launched |-> 0, rerenders |-> 0]
  /\ fnResult = Pending

\* the effect has no dependency list and runs after every render; fetchData()
\* is started on nothing but the cached list and the pair data
TopLpsEffect ==
  /\ fnPc = "rendered"
  /\ fnLocals.effectDue
  /\ IF ShouldFetchTopLps(gState, fnLocals.allPairs)
     THEN fnLocals' = [fnLocals EXCEPT !.effectDue = FALSE,
                                       !.flight = @ + 1, !.launched = @ + 1]
     ELSE fnLocals' = [fnLocals EXCEPT !.effectDue = FALSE]
  /\ UNCHANGED <<fnPc, fnSource, fnResult>>
  /\ UNCHANGED notCall

\* useAllPairData() has pairs: the component renders with them
AllPairDataLoaded ==
  /\ fnPc = "rendered"
  /\ ~fnLocals.effectDue
  /\ ~fnLocals.allPairs
  /\ fnLocals' = [fnLocals EXCEPT !.allPairs = TRUE, !.effectDue = TRUE]
  /\ UNCHANGED <<fnPc, fnSource, fnResult>>
  /\ UNCHANGED notCall

\* the component renders again: a context it reads has a new value
TopLpsRerender ==
  /\ fnPc = "rendered"
  /\ ~fnLocals.effectDue
  /\ fnLocals.rerenders < MaxRerenders
  /\ fnLocals' = [fnLocals EXCEPT !.effectDue = TRUE, !.rerenders = @ + 1]
  /\ UNCHANGED <<fnPc, fnSource, fnResult>>
  /\ UNCHANGED notCall

\* one fetchData() ends: updateTopLps(shorter), and the new state renders
TopLpsComputed ==
  /\ fnPc = "rendered"
  /\ ~fnLocals.effectDue
  /\ fnLocals.flight > 0
  /\ LET shorter == TopLps(fnSource)
     IN  /\ gState' = GlobalReducer(gState, UpdateTopLps(GVal(shorter)))
         /\ fnResult' = Returned(shorter)
  /\ fnLocals' = [fnLocals EXCEPT !.flight = @ - 1, !.effectDue = TRUE]
  /\ UNCHANGED <<fnPc, fnSource, glPending, glRounds, glFlight, glNulls>>
  /\ UNCHANGED <<chartVars, bulkVars, pairVars, rdContext, dispatchVars>>

TopLpsHookNext ==
  \/ TopLpsEffect
  \/ AllPairDataLoaded
  \/ TopLpsRerender
  \/ TopLpsComputed

-----------------------------------------------------------------------------
(* GET_BLOCKS: the block query for a batch of timestamps (apollo/queries) *)

\* stand-in for the 600 seconds of `timestamp_lt: ${timestamp + 600}`
BlockWindow == 3

\* the latest timestamp of a block or of a request
MaxTime == 6

\* how many timestamps one request holds
MaxTimestamps == 2

\* the block entity with the timestamp ts of a chain given by the set of the
\* timestamps of its blocks: blocks are numbered in the order of their
\* timestamps
BlockAt(chain, ts) ==
  [number |-> Cardinality({x \in chain : x <= ts}), timestamp |-> ts]

\* `where: { timestamp_gt: ${timestamp}, timestamp_lt: ${timestamp + 600} }`
BlocksWhere(chain, timestamp) ==
  {ts \in chain : ts > timestamp /\ ts < timestamp + BlockWindow}

\* `first: 1, orderBy: timestamp, orderDirection: desc` on the blocks the
\* where clause leaves
FirstDescending(matching) ==
  IF matching = {} THEN {}
  ELSE {CHOOSE ts \in matching : \A other \in matching : other <= ts}

\* the answer of the sub-query `t${timestamp}:blocks(...) { number }`: a list
\* of at most one block
BlocksSubQuery(chain, timestamp) ==
  LET first == FirstDescending(BlocksWhere(chain, timestamp))
  IN  IF first = {} THEN <<>>
      ELSE <<BlockAt(chain, CHOOSE ts \in first : TRUE)>>

\* the answer of the query GET_BLOCKS(timestamps) builds: one field for every
\* alias t<timestamp>
GetBlocks(chain, timestamps) ==
  [t \in {timestamps[i] : i \in 1..Len(timestamps)} |->
     BlocksSubQuery(chain, t)]

GetBlocksSources ==
  [chain : SUBSET (1..MaxTime),
   timestamps : UNION {[1..n -> 0..MaxTime] : n \in 1..MaxTimestamps}]

GetBlocksInit ==
  /\ fnPc = "call"
  /\ fnSource \in GetBlocksSources
  /\ fnLocals = NoVal
  /\ fnResult = Pending

\* the block source answers the query
GetBlocksQuery ==
  /\ fnPc = "call"
  /\ "chain" \in DOMAIN fnSource
  /\ fnResult' = Returned(GetBlocks(fnSource.chain, fnSource.timestamps))
  /\ fnPc' = "done"
  /\ UNCHANGED <<fnSource, fnLocals>>
  /\ UNCHANGED notCall

GetBlocksNext == GetBlocksQuery

-----------------------------------------------------------------------------
(* useDataForList (contexts/PairData.tsx) *)

\* how often the component is rendered with another pairList
MaxListChanges == 3

\* the pairList values of a session, in the order they are passed
PairLists == 1..(MaxListChanges + 1)

\* what fetchNewPairData of the render with pairList `list` hands to
\* setFetched: newFetched.concat(newPairData) for that list
FetchedFor(list) == [list |-> list]

\* useState([]): the empty array fetched starts with
FetchedEmpty == [list |-> 0]

\* `pairList && pairList.length > 0 && !fetched && !stale`, the lists of the
\* model being non-empty
ShouldFetchList(fetched, stale) == fetched = NoVal /\ ~stale

DataForListInit ==
  /\ fnPc = "listed"
  /\ fnSource = NoVal
  /\ fnLocals = [pairList |-> 1, stale |-> FALSE, fetched |-> FetchedEmpty,
                 pending |-> {"reset", "fetch"}, flight |-> {},
                 launched |-> [l \in PairLists |-> 0]]
  /\ fnResult = Pending

\* the effects of one commit, both reading the stale and fetched of the
\* render they belong to: the reset (setStale(false), setFetched(undefined))
\* and then the fetch (setStale(true), fetchNewPairData()); the state they
\* set renders again, and the second effect depends on it
DataForListEffects ==
  /\ fnPc = "listed"
  /\ fnLocals.pending # {}
  /\ LET reset == "reset" \in fnLocals.pending
         fetch == /\ "fetch" \in fnLocals.pending
                  /\ ShouldFetchList(fnLocals.fetched, fnLocals.stale)
         stale == IF fetch THEN TRUE
                  ELSE IF reset THEN FALSE ELSE fnLocals.stale
         fetched == IF reset THEN NoVal ELSE fnLocals.fetched
         list == fnLocals.pairList
     IN  fnLocals' =
           [fnLocals EXCEPT
              !.stale = stale,
              !.fetched = fetched,
              !.flight = IF fetch THEN @ \cup {list} ELSE @,
              !.launched[list] = IF fetch THEN @ + 1 ELSE @,
              !.pending = IF stale # fnLocals.stale \/ fetched # fnLocals.fetched
                          THEN {"fetch"} ELSE {}]
  /\ UNCHANGED <<fnPc, fnSource, fnResult>>
  /\ UNCHANGED notCall

\* getBulkPairData of the fetch launched for `list` answers:
\* setFetched(newFetched.concat(newPairData))
DataForListFetched ==
  /\ fnPc = "listed"
  /\ fnLocals.pending = {}
  /\ \E list \in fnLocals.flight :
       fnLocals' = [fnLocals EXCEPT !.fetched = FetchedFor(list),
                                    !.flight = @ \ {list},
                                    !.pending = {"fetch"}]
  /\ UNCHANGED <<fnPc, fnSource, fnResult>>
  /\ UNCHANGED notCall

\* the component is rendered with another pairList
PairListChanged ==
  /\ fnPc = "listed"
  /\ fnLocals.pending = {}
  /\ fnLocals.pairList <= MaxListChanges
  /\ fnLocals' = [fnLocals EXCEPT !.pairList = @ + 1,
                                  !.pending = {"reset", "fetch"}]
  /\ UNCHANGED <<fnPc, fnSource, fnResult>>
  /\ UNCHANGED notCall

\* the pair cache has a new value (a write of any hook or of the Updater):
\* `state` is a dependency of the second effect
PairCacheChanged ==
  /\ fnPc = "listed"
  /\ fnLocals.pending = {}
  /\ fnLocals' = [fnLocals EXCEPT !.pending = {"fetch"}]
  /\ UNCHANGED <<fnPc, fnSource, fnResult>>
  /\ UNCHANGED notCall

DataForListNext ==
  \/ DataForListEffects
  \/ DataForListFetched
  \/ PairListChanged
  \/ PairCacheChanged

-----------------------------------------------------------------------------
(* usePairData next to the hooks of the sub-fields, mounted in any order *)

\* a page for one valid pair outside the Updater's list; the components that
\* use the hooks of `hooks` are mounted, the one with usePairData perhaps not
\* yet
PairMetricsInit ==
  /\ pairState = EmptyPairState
  /\ pgSource = Pairs
  /\ pgHooks \in (SUBSET PairHooks) \ {{}}
  /\ pgAddr \in Pairs
  /\ pgWindow = "WEEK"
  /\ pgLatestBlock = "unknown"
  /\ pgPending = pgHooks
  /\ pgFlight = [f \in FetchIds |-> 0]
  /\ pgLaunched = [f \in FetchIds |-> 0]
  /\ pgNavs = 0
  /\ pgLate = {}
  /\ upPc = "done"

\* the component that calls usePairData(pairAddress) mounts
PairDataMounted ==
  /\ pgPending = {}
  /\ "usePairData" \notin pgHooks
  /\ pgHooks' = pgHooks \cup {"usePairData"}
  /\ pgPending' = {"usePairData"}
  /\ UNCHANGED <<pairState, pgSource, pgAddr, pgWindow, pgLatestBlock, pgFlight,
                 pgLaunched, pgNavs, pgLate, upPc>>
  /\ UNCHANGED notPair

\* getBulkPairData([pairAddress]) answers with its list
PairDataAnswered == \E a \in Pairs : PairDataFetched(a, "list")

PairMetricsNext ==
  \/ PairDataEffect
  \/ PairTransactionsEffect
  \/ PairChartDataEffect
  \/ HourlyRateDataEffect
  \/ PairDataMounted
  \/ PairDataAnswered
  \/ \E a \in Pairs : PairTransactionsFetched(a)
  \/ \E a \in Pairs : PairChartDataFetched(a)
  \/ \E a \in Pairs : \E w \in Windows : HourlyRateDataFetched(a, w)

-----------------------------------------------------------------------------
(* useGlobalData against a source without a global snapshot *)

\* how many rounds get their answer from getGlobalData, each time null
MaxNullRounds == 4

\* useGlobalData alone is mounted
GlobalNullInit ==
  /\ gState = EmptyGlobalState
  /\ glPending = {"useGlobalData"}
  /\ glRounds = [s \in StageSet |-> 0]
  /\ glFlight = [h \in GlobalHooks \ {"useGlobalData"} |-> 0]
  /\ glNulls = 0

\* getGlobalData resolves to null: `if (globalData)` skips the update and the
\* round goes on to getAllPairsOnUbeswap
GlobalDataNull ==
  /\ Advances(1)
  /\ glNulls < MaxNullRounds
  /\ glNulls' = glNulls + 1
  /\ UNCHANGED <<gState, glPending, glFlight>>
  /\ UNCHANGED notGlobal

GlobalNullNext ==
  \/ GlobalDataEffect
  \/ GlobalDataNull
  \/ \E l \in {NoVal, GVal(1)} : AllPairsFetched(l)
  \/ \E l \in {NoVal, GVal(1)} : AllTokensFetched(l)

-----------------------------------------------------------------------------
(* getHourlyRateData (contexts/PairData.tsx) *)

\* the batch size getHourlyRateData passes to splitQuery
RatesBatchSize == 100

\* `timestamps`: the hour starts from startTime up to an hour before now
HourStarts(count) == [i \in 1..count |-> 3600 * i]

\* the latest block the exchange subgraph may have indexed
IndexedBlocks == {BlockItem(hour).number : hour \in 1..MaxHours}

\* `if (latestBlock) blocks = blocks.filter(b => b.number <= latestBlock)`
RECURSIVE FilterBlocks(_, _)
FilterBlocks(blocks, latestBlock) ==
  IF blocks = <<>> THEN <<>>
  ELSE (IF latestBlock = NoVal \/ Head(blocks).number <= latestBlock.value
        THEN <<Head(blocks)>> ELSE <<>>)
       \o FilterBlocks(Tail(blocks), latestBlock)

\* `values`: a price point per row of the result, in the order of the rows,
\* which is the order the blocks were queried in
RateValues(blocks, result) ==
  [i \in 1..Len(blocks) |->
     [timestamp |-> blocks[i].timestamp,
      rate0 |-> result[AliasOf(blocks[i])].token0Price,
      rate1 |-> result[AliasOf(blocks[i])].token1Price]]

\* formattedHistoryRate0 / formattedHistoryRate1: `for (i = 0; i <
\* values.length - 1; i++)` pushes the open of point i and the close of
\* point i + 1
FormattedHistory(values, rate) ==
  [i \in 1..(IF Len(values) = 0 THEN 0 ELSE Len(values) - 1) |->
     [timestamp |-> values[i].timestamp,
      open |-> values[i][rate],
      close |-> values[i + 1][rate]]]

\* what getBlocksFromTimestamps resolves to, when it is not null
BlocksAnswer(list) == [list |-> list]

HourlyRateSources ==
  {s \in [count : 0..MaxHours,
          blocks : {NoVal} \cup {BlocksAnswer(list) :
                                    list \in BlockLists \cup {<<>>}},
          latestBlock : {NoVal} \cup {GVal(n) : n \in IndexedBlocks},
          indexed : IndexedBlocks] :
     /\ s.latestBlock # NoVal => s.latestBlock.value = s.indexed
     /\ s.blocks # NoVal =>
          \A i \in 1..Len(s.blocks.list) :
            \E j \in 1..s.count :
              s.blocks.list[i].timestamp = HourStarts(s.count)[j]}

HourlyRateInit ==
  /\ fnPc = "timestamps"
  /\ fnSource \in HourlyRateSources
  /\ fnLocals = [blocks |-> <<>>]
  /\ fnResult = Pending

\* the timestamps are collected: none ends the call with []
HourlyRateTimestamps ==
  /\ fnPc = "timestamps"
  /\ IF Len(HourStarts(fnSource.count)) = 0
     THEN fnPc' = "done" /\ fnResult' = Returned(<<>>)
     ELSE fnPc' = "blocks" /\ UNCHANGED fnResult
  /\ UNCHANGED <<fnSource, fnLocals>>
  /\ UNCHANGED notCall

\* getBlocksFromTimestamps answers: nothing ends the call with [], otherwise
\* the blocks are filtered and queried
HourlyRateBlocks ==
  /\ fnPc = "blocks"
  /\ IF fnSource.blocks = NoVal \/ Len(fnSource.blocks.list) = 0
     THEN fnPc' = "done" /\ fnResult' = Returned(<<>>) /\ UNCHANGED fnLocals
     ELSE /\ fnPc' = "rates"
          /\ fnLocals' = [blocks |-> FilterBlocks(fnSource.blocks.list,
                                                  fnSource.latestBlock)]
          /\ UNCHANGED fnResult
  /\ UNCHANGED fnSource
  /\ UNCHANGED notCall

\* splitQuery answers and the two series are built
HourlyRateFormatted ==
  /\ fnPc = "rates"
  /\ LET result == SplitQuery(fnLocals.blocks, RatesBatchSize, 0, <<>>)
         values == RateValues(fnLocals.blocks, result)
     IN  fnResult' = Returned(<<FormattedHistory(values, "rate0"),
                                FormattedHistory(values, "rate1")>>)
  /\ fnPc' = "done"
  /\ UNCHANGED <<fnSource, fnLocals>>
  /\ UNCHANGED notCall

\* a request is rejected: `catch (e)` returns [[], []]
HourlyRateRejected ==
  /\ fnPc \in {"blocks", "rates"}
  /\ fnPc' = "done"
  /\ fnResult' = Returned(<<<<>>, <<>>>>)
  /\ UNCHANGED <<fnSource, fnLocals>>
  /\ UNCHANGED notCall

HourlyRateNext ==
  \/ HourlyRateTimestamps
  \/ HourlyRateBlocks
  \/ HourlyRateFormatted
  \/ HourlyRateRejected

-----------------------------------------------------------------------------
(* useCurrentCurrency (contexts/Application.tsx) *)

\* the two display currencies: 'USD', that of INITIAL_STATE, and 'ETH'
USD == GVal(0)

ETH == GVal(1)

\* `state.<key>`: the value of a property of the state object, undefined
\* when the object has none of that name
Property(state, key) == IF key \in DOMAIN state THEN state[key] ELSE NoVal

\* the currency toggleCurrency passes to update: it reads `state.currency`
ToggledCurrency(state) ==
  IF Property(state, "currency") = ETH THEN USD ELSE ETH

CurrencyInit ==
  /\ rdContext = "Application"
  /\ DispatchIdle

\* toggleCurrency(): update('USD') or update('ETH'), dispatched to the
\* reducer
ToggleCurrency ==
  /\ rdContext = "Application"
  /\ rdCount < MaxDispatches
  /\ LET next == ApplicationReducer(appState,
                                    UpdateCurrency(ToggledCurrency(appState)))
     IN  /\ appState' = StateAfter(appState, next)
         /\ rdLast' = Dispatched(appState, [type |-> "toggleCurrency"], next)
  /\ rdCount' = rdCount + 1
  /\ UNCHANGED <<chartVars, bulkVars, pairVars, globalVars, rdContext, callVars>>

CurrencyNext == ToggleCurrency \/ DispatchToApplication

-----------------------------------------------------------------------------
(* The specifications *)

InitBulk ==
  BulkInit /\ ChartIdle /\ PairIdle /\ GlobalIdle /\ ReducersIdle /\ CallIdle

SpecBulk == InitBulk /\ [][BulkNext]_vars

InitChart ==
  ChartInit /\ BulkIdle /\ PairIdle /\ GlobalIdle /\ ReducersIdle /\ CallIdle

SpecChart == InitChart /\ [][ChartNext]_vars

InitPair ==
  PairInit /\ ChartIdle /\ BulkIdle /\ GlobalIdle /\ ReducersIdle /\ CallIdle

SpecPair == InitPair /\ [][PairNext]_vars

InitGlobal ==
  GlobalInit /\ ChartIdle /\ BulkIdle /\ PairIdle /\ ReducersIdle /\ CallIdle

SpecGlobal == InitGlobal /\ [][GlobalNext]_vars

\* the hooks are idle and the caches empty; the values PairIdle and
\* GlobalIdle give pairState and gState are those of ReducersInit
InitReducers ==
  ReducersInit /\ ChartIdle /\ BulkIdle /\ PairIdle /\ GlobalIdle /\ CallIdle

SpecReducers == InitReducers /\ [][ReducersNext]_vars

InitGlobalData ==
  GlobalDataInit /\ ChartIdle /\ BulkIdle /\ PairIdle /\ GlobalIdle
    /\ ReducersIdle

SpecGlobalData == InitGlobalData /\ [][GlobalDataNext]_vars

InitCeloPrice ==
  CeloPriceInit /\ ChartIdle /\ BulkIdle /\ PairIdle /\ GlobalIdle
    /\ ReducersIdle

SpecCeloPrice == InitCeloPrice /\ [][CeloPriceNext]_vars

InitTopLps ==
  TopLpsInit /\ ChartIdle /\ BulkIdle /\ PairIdle /\ GlobalIdle
    /\ ReducersIdle

SpecTopLps == InitTopLps /\ [][TopLpsNext]_vars

InitAllPairs ==
  AllPairsInit /\ ChartIdle /\ BulkIdle /\ PairIdle /\ GlobalIdle
    /\ ReducersIdle

SpecAllPairs == InitAllPairs /\ [][AllPairsNext]_vars

InitTwice ==
  TwiceInit /\ ChartIdle /\ PairIdle /\ GlobalIdle /\ ReducersIdle

SpecTwice == InitTwice /\ [][TwiceNext]_vars

InitSplitQuery ==
  SplitQueryInit /\ ChartIdle /\ BulkIdle /\ PairIdle /\ GlobalIdle
    /\ ReducersIdle

SpecSplitQuery == InitSplitQuery /\ [][SplitQueryNext]_vars

InitDispatch ==
  DispatchInit /\ ChartIdle /\ BulkIdle /\ PairIdle /\ GlobalIdle /\ CallIdle

SpecDispatch == InitDispatch /\ [][DispatchNext]_vars

InitChartHook ==
  ChartHookInit /\ ChartIdle /\ BulkIdle /\ PairIdle /\ GlobalIdle
    /\ ReducersIdle

SpecChartHook == InitChartHook /\ [][ChartHookNext]_vars

\* every awaited page query resolves or rejects
SpecChartFair ==
  InitChart /\ [][ChartNext]_vars /\ WF_vars(ChartPageFails \/ ChartPageOk)

InitTopLpsHook ==
  TopLpsHookInit /\ ChartIdle /\ BulkIdle /\ PairIdle /\ GlobalIdle
    /\ ReducersIdle

SpecTopLpsHook == InitTopLpsHook /\ [][TopLpsHookNext]_vars

InitGetBlocks ==
  GetBlocksInit /\ ChartIdle /\ BulkIdle /\ PairIdle /\ GlobalIdle
    /\ ReducersIdle

SpecGetBlocks == InitGetBlocks /\ [][GetBlocksNext]_vars

InitDataForList ==
  DataForListInit /\ ChartIdle /\ BulkIdle /\ PairIdle /\ GlobalIdle
    /\ ReducersIdle

SpecDataForList == InitDataForList /\ [][DataForListNext]_vars

InitPairMetrics ==
  PairMetricsInit /\ ChartIdle /\ BulkIdle /\ GlobalIdle /\ ReducersIdle
    /\ CallIdle

\* every effect that is due runs and every query is answered
SpecPairMetrics ==
  InitPairMetrics /\ [][PairMetricsNext]_vars /\ WF_vars(PairMetricsNext)

InitGlobalNull ==
  GlobalNullInit /\ ChartIdle /\ BulkIdle /\ PairIdle /\ ReducersIdle
    /\ CallIdle

SpecGlobalNull == InitGlobalNull /\ [][GlobalNullNext]_vars

InitHourlyRate ==
  HourlyRateInit /\ ChartIdle /\ BulkIdle /\ PairIdle /\ GlobalIdle
    /\ ReducersIdle

SpecHourlyRate == InitHourlyRate /\ [][HourlyRateNext]_vars

InitCurrency ==
  CurrencyInit /\ ChartIdle /\ BulkIdle /\ PairIdle /\ GlobalIdle /\ CallIdle

SpecCurrency == InitCurrency /\ [][CurrencyNext]_vars

-----------------------------------------------------------------------------
(* getBulkPairData: properties *)

\* C9: getBulkPairData never rejects and always returns a list of bundles,
\* whatever the resolver and the queries answer.
C9_AlwaysReturnsList == bkPc = "done" => bkResult = "list"

\* the current bulk query has answered (the historical ones were issued)
CurrentAnswered == <<"PAIRS_HISTORICAL_BULK", "oneDay", "all">> \in bkQueries

\* C10: once the current bulk query has answered, getBulkPairData returns a
\* list holding exactly one bundle for each requested pair of the current
\* state, and the bundle of a pair left without one-day-old snapshot has its
\* lifetime volumeUSD as oneDayVolumeUSD.
C10_OneBundlePerPair ==
  (bkPc = "done" /\ CurrentAnswered) =>
    /\ bkResult = "list"
    /\ \A p \in Pairs :
         (bkBundles[p] # NoVal) <=> (p \in bkList /\ ExistsAt(p, HeadBlock))
    /\ \A p \in Pairs :
         bkBundles[p] # NoVal =>
           /\ bkBundles[p].id = p
           /\ bkBundles[p].volumeUSD = VolumeAt(bkCreated[p], HeadBlock)
           /\ bkHistory[p]["oneDay"] = NoVal =>
                bkBundles[p].oneDayVolumeUSD = VolumeAt(bkCreated[p], HeadBlock)

\* two requested pairs, one older than a day and one younger: two bundles, the
\* young pair's one-day volume is its lifetime volume, the old pair's a delta
C10_Witness ==
  /\ bkPc = "done" /\ bkResult = "list"
  /\ bkList = Pairs
  /\ \A p \in Pairs : bkBundles[p] # NoVal
  /\ ~ExistsAt("pB", BlockOf("oneDay"))
  /\ bkHistory["pB"]["oneDay"] = NoVal
  /\ <<"PAIR_DATA", "oneDay", "pB">> \in bkQueries
  /\ bkBundles["pB"].oneDayVolumeUSD = bkBundles["pB"].volumeUSD
  /\ bkBundles["pB"].volumeUSD > 0
  /\ bkHistory["pA"]["oneDay"] # NoVal
  /\ bkBundles["pA"].oneDayVolumeUSD < bkBundles["pA"].volumeUSD

-----------------------------------------------------------------------------
(* Chart back-fill: properties *)

\* the fetch is over, every page query succeeded and the source held a record
ChartFetched == chPc = "done" /\ chCaught # "query" /\ chSource # <<>>

SourceDates == {chSource[i].date : i \in 1..Len(chSource)}

\* the first day of the series of the source at or after now - 1 day
LastCoveredDay ==
  LET d0 == chSource[1].date
      limit == chNow - oneDay
  IN  IF d0 >= limit THEN d0
      ELSE d0 + ((limit - d0 + oneDay - 1) \div oneDay) * oneDay

\* C1: a daily series returned after a fetch whose page queries all succeeded
\* on a non-empty source starts at the first observed day, has consecutive
\* buckets exactly one day apart (so strictly increasing, each day once) and
\* reaches the last covered day, the first day at or after now - 1 day.
C1_ContiguousDays ==
  ChartFetched =>
    /\ chCaught = "none"
    /\ chData # <<>>
    /\ chData[1].date = chSource[1].date
    /\ \A i \in 1..(Len(chData) - 1) : chData[i + 1].date = chData[i].date + oneDay
    /\ chData[Len(chData)].date >= LastCoveredDay
    /\ \A i \in 1..Len(chData) :
         chData[i].date <= LastCoveredDay \/ chData[i].date \in SourceDates

\* a fetch of more than one page whose series holds synthesized days between
\* source days
C1_Witness ==
  /\ ChartFetched
  /\ chSkip > PageSize
  /\ Len(chData) > Len(chSource) + 2
  /\ \E i \in 2..(Len(chData) - 1) :
       /\ chData[i].date \notin SourceDates
       /\ chData[i + 1].date \in SourceDates

\* the latest source record dated before `date`
LatestSourceBefore(date) ==
  LET earlier == {i \in 1..Len(chSource) : chSource[i].date < date}
  IN  chSource[CHOOSE i \in earlier : \A j \in earlier : chSource[j].date <= chSource[i].date]

\* C2: in a gap-filled series a bucket of a day without source record has
\* volume 0 and the liquidity of the latest source record before it, and a
\* bucket of a source day is the source record.
C2_CarryForward ==
  ChartFetched =>
    /\ \A i \in 1..Len(chSource) : \E j \in 1..Len(chData) : chData[j] = chSource[i]
    /\ \A j \in 1..Len(chData) :
         IF chData[j].date \in SourceDates
         THEN \E i \in 1..Len(chSource) : chData[j] = chSource[i]
         ELSE /\ chData[j].dailyVolumeUSD = 0
              /\ chData[j].liquidityUSD = LatestSourceBefore(chData[j].date).liquidityUSD

\* source days d0 and d0 + 3 give the four buckets d0 .. d0 + 3, the middle
\* two with volume 0 and d0's liquidity
C2_Witness ==
  /\ ChartFetched
  /\ Len(chSource) = 2
  /\ chSource[2].date = chSource[1].date + 3 * oneDay
  /\ Len(chData) = 4
  /\ chData[1] = chSource[1]
  /\ chData[4] = chSource[2]
  /\ \A j \in {2, 3} : /\ chData[j].dailyVolumeUSD = 0
                       /\ chData[j].liquidityUSD = chSource[1].liquidityUSD

\* the positions of the daily series at which the week number changes
WeekChanges == {i \in 2..Len(chData) : Week(chData[i].date) # Week(chData[i - 1].date)}

\* the weekly bucket a daily position falls into
BucketOf(i) == 1 + Cardinality({k \in WeekChanges : k <= i})

RECURSIVE SumOver(_, _)
SumOver(f, S) ==
  IF S = {} THEN 0
  ELSE LET x == CHOOSE y \in S : TRUE IN f[x] + SumOver(f, S \ {x})

DailyVolume == [i \in 1..Len(chData) |-> chData[i].dailyVolumeUSD]

\* C3: getChartData starts a weekly bucket exactly where the week number of
\* the sorted daily series changes: there are 1 + (number of changes) weekly
\* buckets, each holds the sum of the daily volumes of its run, and the weekly
\* volumes add up to the daily total.
C3_WeeklyBuckets ==
  (ChartFetched /\ chKind = "global") =>
    /\ Len(chWeekly) = 1 + Cardinality(WeekChanges)
    /\ \A b \in 1..Len(chWeekly) :
         chWeekly[b].weeklyVolumeUSD =
           SumOver(DailyVolume, {i \in 1..Len(chData) : BucketOf(i) = b})
    /\ SumSeq([b \in 1..Len(chWeekly) |-> chWeekly[b].weeklyVolumeUSD]) =
         SumOver(DailyVolume, 1..Len(chData))

\* 14 consecutive days crossing one week boundary give 2 weekly buckets
C3_Witness ==
  /\ ChartFetched /\ chKind = "global"
  /\ Len(chData) = 14
  /\ Cardinality(WeekChanges) = 1
  /\ Len(chWeekly) = 2
  /\ chWeekly[1].weeklyVolumeUSD > 0
  /\ chWeekly[1].weeklyVolumeUSD + chWeekly[2].weeklyVolumeUSD
       = SumOver(DailyVolume, 1..14)

\* C12: when a page query of getChartData's paging loop fails, the function
\* returns an empty daily series and an empty weekly series.
C12_FailedPageGivesEmptySeries ==
  (chPc = "done" /\ chKind = "global" /\ chCaught = "query") =>
    /\ chData = <<>>
    /\ chWeekly = <<>>

-----------------------------------------------------------------------------
(* The pair session cache: properties *)

\* the hooks whose fetch is keyed by the pair address alone
AddressHooks == {"usePairData", "usePairTransactions", "usePairChartData"}

\* C4: usePairData, usePairTransactions and usePairChartData launch one fetch
\* per address and data kind: once a fetch for an address has been launched,
\* the same hook launches no further fetch for that address.
C4_OneFetchPerAddress ==
  \A h \in AddressHooks : \A a \in Pairs : pgLaunched[Fetch(h, a, "none")] <= 1

\* C6: an entry stored under address a that carries a pair snapshot carries
\* the snapshot of pair a.
C6_SnapshotUnderOwnAddress ==
  \A a \in Pairs :
    (pairState[a] # NoVal /\ pairState[a].pair # NoVal) => pairState[a].pair.id = a

\* both pairs carry a snapshot, one written by usePairData after the Updater
\* had finished, for an address the page has left since
C6_Witness ==
  /\ \A a \in Pairs : pairState[a] # NoVal /\ pairState[a].pair # NoVal
  /\ upPc = "done"
  /\ "usePairData" \in pgLate
  /\ pgLaunched[Fetch("usePairData", "pA", "none")] = 1
  /\ pgFlight[Fetch("usePairData", "pA", "none")] = 0
  /\ pgAddr = "pB"


\* what the completion of fetch f must leave in the cache: the entries of
\* all other addresses as they were, and the result under the captured key
\* (usePairData writes nothing when the assembler gave it no list, and no
\* pair fields when the source holds no such pair)
WrittenUnderCapturedKey(f) ==
  LET hook == f[1]
      address == f[2]
      before == EntryOf(pairState, address)
      after == EntryOf(pairState', address)
  IN  /\ \A a \in Pairs \ {address} : pairState'[a] = pairState[a]
      /\ CASE hook = "usePairData" ->
                \/ /\ pairState'[address] = pairState[address]
                   /\ ~PairDataFetched(address, "list") \/ pairState[address] # NoVal
                \/ /\ pairState'[address] # NoVal
                   /\ after.pair = IF address \in pgSource THEN Bundle(address)
                                   ELSE before.pair
                   /\ after = [before EXCEPT !.pair = after.pair]
            [] hook = "usePairTransactions" ->
                after = [before EXCEPT !.txns = ResultFor(address)]
            [] hook = "usePairChartData" ->
                after = [before EXCEPT !.chartData = ResultFor(address)]
            [] hook = "useHourlyRateData" ->
                after = [before EXCEPT !.hourlyData[f[3]] = ResultFor(address)]

\* C8: a completing fetch writes its result into the entry of the key its
\* closure captured at launch, and into no other entry, also when the page
\* has switched to another key meanwhile.
C8_WritesUnderCapturedKey ==
  [][\A f \in FetchIds :
       pgFlight'[f] < pgFlight[f] => WrittenUnderCapturedKey(f)]_vars

\* a chart fetch completed after the page had left its address: its result
\* is cached under the address it was launched for, and the address the
\* page shows now has no chart data yet
C8_Witness ==
  /\ "usePairChartData" \in pgLate
  /\ \E a \in Pairs \ {pgAddr} :
       /\ EntryOf(pairState, a).chartData = ResultFor(a)
       /\ pgFlight[Fetch("usePairChartData", a, "none")] = 0
  /\ EntryOf(pairState, pgAddr).chartData = NoVal

-----------------------------------------------------------------------------
(* The global session cache: properties *)

\* C5: useGlobalData has at most one fetch round in flight: no second round
\* is started while the first is in flight, whatever else is written to the
\* global cache meanwhile.
C5_OneRoundInFlight == RoundsInFlight <= 1

-----------------------------------------------------------------------------
(* The reducers: properties *)

\* the address keys of the pair cache
PairKeys(state) == {a \in Pairs : state[a] # NoVal}

\* the populated fields of the global cache: the keys of the state object
GlobalKeys(state) == {k \in GlobalFields : state[k] # Absent}

-----------------------------------------------------------------------------
(* getGlobalData: properties *)

\* the snapshots the data source makes available to a call
CurrentAvailable == fnSource.current = "snapshot"

HistoryAvailable(period) ==
  period \in fnSource.found /\ fnSource.historical[period] = "snapshot"

\* C11: getGlobalData returns the current snapshot with all seven derived
\* fields when the current and the four historical snapshots are available,
\* the bare current snapshot when the current one is available and a
\* historical one is not, and an absent value when the current one is not.
C11_DerivedOnlyWithAllSnapshots ==
  fnPc = "done" =>
    LET value == fnResult.returned
    IN  IF ~CurrentAvailable THEN value = NoVal
        ELSE IF \A p \in GlobalPeriodSet : HistoryAvailable(p)
             THEN /\ DerivedFields \subseteq DOMAIN value
                  /\ value.totalVolumeUSD
                       = FactoryAt(fnSource.rate, "now").totalVolumeUSD
             ELSE value = FactoryAt(fnSource.rate, "now")

\* a call that found every snapshot but the one-week-old one, whose block was
\* not resolved, and returned the bare current snapshot
C11_Witness ==
  /\ fnPc = "done"
  /\ CurrentAvailable
  /\ \A p \in GlobalPeriodSet \ {"oneWeek"} : HistoryAvailable(p)
  /\ "oneWeek" \notin fnSource.found
  /\ fnResult.returned = FactoryAt(fnSource.rate, "now")

-----------------------------------------------------------------------------
(* getCeloPrice: properties *)

\* no block is resolved for now - 1 day, or the historical price query
\* returns no bundle
NoHistoricalPrice ==
  \/ fnSource.block = "none"
  \/ fnSource.block = "found" /\ fnSource.historical \in {"none", "noData"}

\* C13: getCeloPrice always returns its three values, and when no block is
\* resolved for now - 1 day or the historical price query returns no bundle,
\* the one-day-old price returned is the current price returned and the price
\* change is the change between the current price and itself.
C13_CurrentPriceWhenNoHistory ==
  fnPc = "done" =>
    LET value == fnResult.returned
    IN  /\ Len(value) = 3
        /\ NoHistoricalPrice =>
             /\ value[2] = value[1]
             /\ value[3] = GetPercentChangeOfTexts(NumberToString(value[1]),
                                                   NumberToString(value[1]))

\* a call that resolved no block and returned the current price, read from a
\* text with a trailing zero, as the one-day-old price
C13_Witness ==
  /\ fnPc = "done"
  /\ fnSource.block = "none"
  /\ fnSource.current = "bundle"
  /\ fnSource.price = Decimal(150, 1)
  /\ fnResult.returned = <<Float(150), Float(150), 0>>

-----------------------------------------------------------------------------
(* useTopLps: properties *)

\* the pairs whose positions were queried, and those whose query succeeded
QueriedPairs ==
  LET topPairs == TopPairs(fnSource.allPairs)
  IN  {topPairs[i] : i \in 1..Len(topPairs)}

SucceededPairs == {p \in QueriedPairs : fnSource.answers[p] = "positions"}

\* the usd value of a position of the source
UsdOf(pair, balance) ==
  (balance * fnSource.allPairs[pair].reserveUSD)
    \div fnSource.allPairs[pair].totalSupply

\* the positions the queries that succeeded returned
Candidates ==
  {[user |-> i, pairAddress |-> p, usd |-> UsdOf(p, fnSource.positions[p][i])] :
     <<p, i>> \in {pi \in SucceededPairs \X (1..PositionsFirst) :
                     pi[2] <= Len(fnSource.positions[pi[1]])}}

\* the list in the cache
WrittenTopLps == gState["topLps"].value

\* C14: the list useTopLps writes has at most TopLpsCount (100) entries in
\* non-increasing order of usd, all of them positions returned by the queries
\* that succeeded, and no such position left out has a larger usd than one in
\* the list.
C14_LargestPositionsInOrder ==
  fnPc = "done" =>
    LET list == WrittenTopLps
        kept == {list[i] : i \in 1..Len(list)}
    IN  /\ Len(list) <= TopLpsCount
        /\ \A i \in 1..(Len(list) - 1) : list[i].usd >= list[i + 1].usd
        /\ kept \subseteq Candidates
        /\ Cardinality(kept) = Len(list)
        /\ Len(list) < TopLpsCount => kept = Candidates
        /\ \A c \in Candidates \ kept : \A e \in kept : c.usd <= e.usd

\* four positions of two pairs, of which the three largest are written
C14_Witness ==
  /\ fnPc = "done"
  /\ Cardinality(Candidates) > TopLpsCount
  /\ Len(WrittenTopLps) = TopLpsCount
  /\ WrittenTopLps[1].usd > WrittenTopLps[TopLpsCount].usd
  /\ \E c \in Candidates : \A i \in 1..TopLpsCount : WrittenTopLps[i] # c

\* C15: when per-pair queries of useTopLps fail, the list is still written,
\* it holds no position of a pair whose query failed, and every position of a
\* pair whose query succeeded is in it unless the list is full of positions
\* of at least its usd.
C15_FailedQuerySkipped ==
  fnPc = "done" =>
    /\ gState["topLps"] # Absent
    /\ LET list == WrittenTopLps
       IN  /\ \A i \in 1..Len(list) :
                fnSource.answers[list[i].pairAddress] = "positions"
           /\ \A p \in SucceededPairs :
                \A k \in 1..Len(fnSource.positions[p]) :
                  \/ \E i \in 1..Len(list) :
                       list[i].pairAddress = p /\ list[i].user = k
                  \/ /\ Len(list) = TopLpsCount
                     /\ \A i \in 1..Len(list) :
                          list[i].usd >= UsdOf(p, fnSource.positions[p][k])

\* one of the queried pairs has positions and its query rejects, the other's
\* query succeeds and its two positions are the list written
C15_Witness ==
  /\ fnPc = "done"
  /\ \E p \in QueriedPairs :
       /\ fnSource.answers[p] = "rejects"
       /\ fnSource.positions[p] # <<>>
  /\ \E p \in SucceededPairs : Len(fnSource.positions[p]) = 2
  /\ Len(WrittenTopLps) = 2

-----------------------------------------------------------------------------
(* getAllPairsOnUbeswap: properties *)

\* the call returned after page queries that all answered with their page
AllPagesAnswered ==
  /\ fnPc = "done"
  /\ fnResult.returned # NoVal
  /\ fnLocals.noData = 0

\* C16: when every page query answers, getAllPairsOnUbeswap returns the pairs
\* of the data source, each exactly once, whatever their number, having
\* queried skip = 0, 500, 1000, ... up to a page with fewer than 500 pairs.
C16_EveryPairOnce ==
  AllPagesAnswered =>
    /\ fnResult.returned.pairs = AllPairsOf(fnSource.count)
    /\ fnLocals.skipCount =
         ((fnSource.count \div PAIRS_TO_FETCH) + 1) * PAIRS_TO_FETCH

-----------------------------------------------------------------------------
(* Two runs of an assembler: properties *)

-----------------------------------------------------------------------------
(* The query batcher: properties *)

\* C18: for a list of block items, the mapping the batcher returns with any
\* batch size >= 1 is the one it returns with the whole list as one batch,
\* and it has one key t<timestamp> per item.
C18_BatchingEquivalence ==
  fnPc = "done" =>
    /\ fnResult.returned =
         SplitQuery(fnSource.blocks, Len(fnSource.blocks), 0, <<>>)
    /\ fnResult.returned = HourlyPairRates(fnSource.blocks)
    /\ Cardinality(DOMAIN fnResult.returned) = Len(fnSource.blocks)

\* five items split into three batches of two, two and one
C18_Witness ==
  /\ fnPc = "done"
  /\ Len(fnSource.blocks) = 5
  /\ fnSource.batchSize = 2
  /\ fnLocals.skip = 6
  /\ Cardinality(DOMAIN fnResult.returned) = 5

-----------------------------------------------------------------------------
(* The reducers: properties *)

\* the value `action` carries is the one stored under its key and sub-field
PairStored(state, action) ==
  CASE action.type = "UPDATE" ->
         action.data = NoVal \/ state[action.pairAddress].pair = action.data
    [] action.type = "UPDATE_TOP_PAIRS" ->
         \A i \in 1..Len(action.topPairs) :
           (\A j \in (i + 1)..Len(action.topPairs) :
              action.topPairs[j].id # action.topPairs[i].id)
             => state[action.topPairs[i].id].pair = action.topPairs[i]
    [] action.type = "UPDATE_PAIR_TXNS" ->
         state[action.address].txns = action.transactions
    [] action.type = "UPDATE_CHART_DATA" ->
         state[action.address].chartData = action.chartData
    [] action.type = "UPDATE_HOURLY_DATA" ->
         state[action.address].hourlyData[action.timeWindow] = action.hourlyData

GlobalStored(state, action) ==
  CASE action.type = "UPDATE" -> state["globalData"] = action.data
    [] action.type = "UPDATE_TXNS" -> state["transactions"] = action.transactions
    [] action.type = "UPDATE_CHART" ->
         state["chartData"] = [daily |-> action.daily, weekly |-> action.weekly]
    [] action.type = "UPDATE_CELO_PRICE" ->
         /\ state["CELO_PRICE_KEY"] = action.celoPrice
         /\ state["oneDayPrice"] = action.oneDayPrice
         /\ state["celoPriceChange"] = action.celoPriceChange
    [] action.type = "UPDATE_ALL_PAIRS_IN_UBESWAP" ->
         state["allPairs"] = action.allPairs
    [] action.type = "UPDATE_ALL_TOKENS_IN_UBESWAP" ->
         state["allTokens"] = action.allTokens
    [] action.type = "UPDATE_TOP_LPS" -> state["topLps"] = action.topLps

\* the last dispatch was a write of the reducer of `context`
Wrote(context) ==
  /\ rdContext = context
  /\ rdLast # NoVal
  /\ ~rdLast.threw

\* C19: after any write of the pair-cache or global-cache reducer, whatever
\* was written before it, the value stored under the action's key and
\* sub-field is the one the action carries, and applying the same action
\* once more gives the same state.
C19_IdempotentLastWriteWins ==
  /\ Wrote("PairData") =>
       /\ PairStored(pairState, rdLast.action)
       /\ PairReducer(pairState, rdLast.action) = pairState
  /\ Wrote("GlobalData") =>
       /\ GlobalStored(gState, rdLast.action)
       /\ GlobalReducer(gState, rdLast.action) = gState

\* the transactions of pair pA were written, then written again with another
\* value, which is the one stored
C19_Witness ==
  /\ Wrote("PairData")
  /\ rdLast.action = UpdatePairTxns("pA", ResultFor("pB"))
  /\ rdLast.before["pA"] # NoVal
  /\ rdLast.before["pA"].txns = ResultFor("pA")
  /\ pairState["pA"].txns = ResultFor("pB")

\* the types the reducer of the context names
NamedTypes ==
  CASE rdContext = "PairData" -> TypesOf(PairActions)
    [] rdContext = "GlobalData" -> TypesOf(GlobalActions)
    [] rdContext = "Application" -> TypesOf(ApplicationActions)
    [] OTHER -> {}

\* the state of the context the dispatches go to
ContextState ==
  CASE rdContext = "PairData" -> pairState
    [] rdContext = "GlobalData" -> gState
    [] OTHER -> appState

-----------------------------------------------------------------------------
(* useGlobalChartData: properties *)

\* C21: once the effects of useGlobalChartData have run, a chart fetch is in
\* flight whenever no chart data is cached, and when the cached chart starts
\* later than the active timeframe, a fetch from the timeframe's start or
\* earlier is in flight.
C21_OlderTimeframeRefetched ==
  (fnPc = "mounted" /\ fnLocals.pending = {} /\ fnLocals.combinedData) =>
    /\ ~ChartCached(gState) => fnLocals.flight # {}
    /\ (/\ ChartCached(gState)
        /\ GetTimeframe(fnLocals.activeWindow) < gState["chartData"].daily.value)
         => \E start \in fnLocals.flight :
              start <= GetTimeframe(fnLocals.activeWindow)

-----------------------------------------------------------------------------
(* The chart paging loops: properties *)

\* a record the source returned, not a synthesized empty day
IsSourceRecord(r) == r.dailyVolumeUSD # 0

\* what the paging loop holds while it runs and after it has ended, when no
\* page query failed
PagingInOrder ==
  chCaught # "query" =>
    /\ chSkip % PageSize = 0
    /\ chPc = "paging" =>
         /\ chSkip <= Len(chSource)
         /\ chData = SubSeq(chSource, 1, chSkip)
    /\ chPc = "done" =>
         /\ chSkip = PageSize * ((Len(chSource) \div PageSize) + 1)
         /\ SelectSeq(chData, IsSourceRecord) = chSource

\* C22: the paging loops of getChartData and getPairChartData request the
\* pages skip = 0, 1000, 2000, ... in order and hold their concatenation, stop
\* after the first page shorter than the page size, end for every finite
\* source, and return every record of the source once, in order.
C22_PagingCompleteAndTerminates == []PagingInOrder /\ <>(chPc = "done")

C22_Witness ==
  /\ chPc = "done"
  /\ chCaught # "query"
  /\ Len(chSource) = 2 * PageSize
  /\ chSkip = 3 * PageSize

-----------------------------------------------------------------------------
(* useTopLps, the hook: properties *)

\* C23: useTopLps launches at most one top-LP computation, and none while one
\* is in flight, however often the component renders before the list is
\* cached.
C23_OneComputationInFlight ==
  fnPc = "rendered" => fnLocals.launched <= 1 /\ fnLocals.flight <= 1

-----------------------------------------------------------------------------
(* useHourlyRateData: properties *)

\* C24: useHourlyRateData never has two fetches in flight for one composite
\* key (pairAddress, timeWindow): a fetch launched for a key with no cached
\* hourly data stays the only one until its result is written, also when the
\* latest block becomes known in the meantime.
C24_OneHourlyFetchPerKey ==
  \A a \in Pairs : \A w \in Windows :
    pgFlight[Fetch("useHourlyRateData", a, w)] <= 1

-----------------------------------------------------------------------------
(* getBulkPairData: the queries it issues *)

\* the three historical bulk queries have answered (or failed into [])
BulkAnswered == \A q \in PeriodSet : bkBulk[q] # Pending

\* the pair is in the bulk result of the period
InBulkResult(p, q) == HistoryFromBulk(bkBulk, p)[q] # NoVal

\* C25: getBulkPairData issues the point query PAIR_DATA for (pair, period)
\* exactly when the pair is absent from the period's bulk result, which is
\* empty when the bulk query failed; a snapshot comes from the bulk result,
\* else from the point query, else is absent, and every pair of the current
\* result gets its bundle from the snapshots it has.
C25_FallbackIffAbsentFromBulk ==
  \A p \in Pairs : \A q \in PeriodSet :
    /\ <<"PAIR_DATA", q, p>> \in bkQueries =>
         BulkAnswered /\ p \in CurrentIds /\ ~InBulkResult(p, q)
    /\ bkResult = "list" /\ p \in CurrentIds =>
         /\ ~InBulkResult(p, q) => <<"PAIR_DATA", q, p>> \in bkQueries
         /\ bkHistory[p][q] =
              IF InBulkResult(p, q) THEN HistoryFromBulk(bkBulk, p)[q]
              ELSE IF bkHistory[p][q] = NoVal THEN NoVal
              ELSE PairData(p, BlockOf(q))
         /\ bkBundles[p] = ParseData(CurrentOf(p), bkHistory[p]["oneDay"],
                                     bkHistory[p]["twoDay"],
                                     bkHistory[p]["oneWeek"])

\* a pair that existed at a period's block has no snapshot of it (the bulk
\* query and the point query both failed) and has one of another period,
\* and another pair has all three
C25_Witness ==
  /\ bkResult = "list"
  /\ \E p \in CurrentIds : \E r \in CurrentIds \ {p} :
       /\ \E q \in PeriodSet :
            /\ ExistsAt(p, BlockOf(q))
            /\ bkHistory[p][q] = NoVal
            /\ <<"PAIR_DATA", q, p>> \in bkQueries
       /\ \E q \in PeriodSet : bkHistory[p][q] # NoVal
       /\ \A q \in PeriodSet : bkHistory[r][q] # NoVal
       /\ bkBundles[p] # NoVal
       /\ bkBundles[r] # NoVal

\* the bulk queries issued so far
BulkQueries ==
  {x \in bkQueries : x[1] \in {"PAIRS_BULK", "PAIRS_HISTORICAL_BULK"}}

\* C26: once the current bulk query has answered, getBulkPairData has issued
\* one current bulk query and three historical bulk queries, one for each
\* reference block and each for the whole pair list, whatever the number of
\* pairs; it never issues another bulk query.
C26_FourBulkQueries ==
  /\ BulkQueries \subseteq
       {<<"PAIRS_BULK", "now", "all">>} \cup
         {<<"PAIRS_HISTORICAL_BULK", q, "all">> : q \in PeriodSet}
  /\ (bkPc \in {"historical", "pairs"} \/ bkResult = "list") =>
       /\ Cardinality({x \in BulkQueries : x[1] = "PAIRS_BULK"}) = 1
       /\ Cardinality({x \in BulkQueries : x[1] = "PAIRS_HISTORICAL_BULK"}) = 3

C26_Witness ==
  /\ bkResult = "list"
  /\ Cardinality(bkList) = 2
  /\ Cardinality(CurrentIds) = 2
  /\ Cardinality(BulkQueries) = 4

\* C27: parseData has produced no pair's bundle while a fallback query of
\* any pair is still awaited.
C27_ParseAfterAllFetches ==
  \A p \in Pairs :
    bkBundles[p] # NoVal => \A x \in Pairs : bkWait[x] \notin PeriodSet

-----------------------------------------------------------------------------
(* GET_BLOCKS: properties *)

\* the timestamps of the blocks in the window that starts at t
InWindow(chain, t) == {ts \in chain : ts >= t /\ ts < t + BlockWindow}

\* C28: the sub-query t<t> of the block query answers at most one block, and
\* when a block's timestamp lies in the window starting at t, it answers the
\* earliest such block, the first block at or after t.
C28_EarliestBlockOfWindow ==
  (fnPc = "done" /\ "chain" \in DOMAIN fnSource) =>
    \A t \in DOMAIN fnResult.returned :
      LET answer == fnResult.returned[t]
          window == InWindow(fnSource.chain, t)
      IN  /\ Len(answer) <= 1
          /\ window # {} =>
               /\ Len(answer) = 1
               /\ \A ts \in window : answer[1].timestamp <= ts

-----------------------------------------------------------------------------
(* useTopLps: the pairs it selects *)

\* the pairs whose positions fetchData() queried
SelectedPairs ==
  LET topPairs == TopPairs(fnSource.allPairs)
  IN  {topPairs[i] : i \in 1..Len(topPairs)}

\* C29: the pairs useTopLps selects have the largest reserves: the reserveUSD
\* of a selected pair is, as a number, at least that of every cached pair it
\* did not select.
C29_LargestReservesSelected ==
  (fnPc = "done" /\ "allPairs" \in DOMAIN fnSource) =>
    \A p \in SelectedPairs : \A q \in LpPairSet \ SelectedPairs :
      fnSource.allPairs[p].reserveUSD >= fnSource.allPairs[q].reserveUSD

-----------------------------------------------------------------------------
(* parseData: the one-week volume *)

\* the cumulative volume of pair p in the source at block b
SourceVolume(p, b) == VolumeAt(bkCreated[p], b)

\* C30: the one-week volume of a bundle is the pair's current cumulative
\* volume minus its cumulative volume at the one-week block when the bundle
\* was built with a one-week snapshot, and the current cumulative volume
\* otherwise; it is a volume, never negative, and at most the lifetime volume.
C30_OneWeekVolumeIsDifference ==
  \A p \in Pairs :
    bkBundles[p] # NoVal =>
      /\ bkBundles[p].oneWeekVolumeUSD =
           IF bkHistory[p]["oneWeek"] # NoVal
           THEN SourceVolume(p, HeadBlock) - SourceVolume(p, BlockOf("oneWeek"))
           ELSE SourceVolume(p, HeadBlock)
      /\ bkBundles[p].oneWeekVolumeUSD >= 0
      /\ bkBundles[p].oneWeekVolumeUSD <= SourceVolume(p, HeadBlock)

\* one bundle built with a one-week snapshot of a positive volume, one built
\* without
C30_Witness ==
  \E p \in Pairs : \E r \in Pairs :
    /\ bkBundles[p] # NoVal
    /\ bkHistory[p]["oneWeek"] # NoVal
    /\ bkHistory[p]["oneWeek"].volumeUSD > 0
    /\ bkBundles[p].oneWeekVolumeUSD > 0
    /\ bkBundles[r] # NoVal
    /\ bkHistory[r]["oneWeek"] = NoVal

-----------------------------------------------------------------------------
(* The pair cache: what a write leaves alone *)

\* the sub-fields of an entry next to the pair's own fields
SubFields == {"txns", "chartData", "hourlyData"}

\* the address the last dispatched action names
AddressOf(action) ==
  IF action.type = "UPDATE" THEN action.pairAddress ELSE action.address

\* the entries of all addresses but a are those before the dispatch
OthersUnchanged(a) ==
  \A b \in Pairs \ {a} : pairState[b] = rdLast.before[b]

\* a's entry before the dispatch, {} when the cache had none
EntryBefore(a) ==
  IF rdLast.before[a] = NoVal THEN EmptyEntry ELSE rdLast.before[a]

\* the fields of a's entry but those in `written` are those before the
\* dispatch
FieldsUnchanged(a, written) ==
  \A f \in DOMAIN EmptyEntry \ written :
    pairState[a][f] = EntryBefore(a)[f]

\* C31: a sub-field write of the pair cache for address a changes only the
\* named sub-field of a's entry (txns, chartData or hourlyData[timeWindow]):
\* a's other fields, its hourly data of other time windows and the entries
\* of the other addresses are as before; UPDATE for a changes a's pair fields
\* to the new data and keeps its sub-fields.
C31_SubFieldWritesAreMergePatches ==
  (rdContext = "PairData" /\ rdLast # NoVal /\ ~rdLast.threw) =>
    LET action == rdLast.action
    IN  /\ action.type = "UPDATE_PAIR_TXNS" =>
             /\ OthersUnchanged(action.address)
             /\ FieldsUnchanged(action.address, {"txns"})
             /\ pairState[action.address].txns = action.transactions
        /\ action.type = "UPDATE_CHART_DATA" =>
             /\ OthersUnchanged(action.address)
             /\ FieldsUnchanged(action.address, {"chartData"})
             /\ pairState[action.address].chartData = action.chartData
        /\ action.type = "UPDATE_HOURLY_DATA" =>
             /\ OthersUnchanged(action.address)
             /\ FieldsUnchanged(action.address, {"hourlyData"})
             /\ \A w \in Windows :
                  pairState[action.address].hourlyData[w] =
                    IF w = action.timeWindow THEN action.hourlyData
                    ELSE EntryBefore(action.address).hourlyData[w]
        /\ action.type = "UPDATE" =>
             /\ OthersUnchanged(action.pairAddress)
             /\ FieldsUnchanged(action.pairAddress, {"pair"})
             /\ pairState[action.pairAddress].pair =
                  IF action.data = NoVal
                  THEN EntryBefore(action.pairAddress).pair
                  ELSE action.data

\* hourly data of one window is written to an entry that holds a transaction
\* list and hourly data of the other window
C31_Witness ==
  /\ rdContext = "PairData"
  /\ rdLast # NoVal
  /\ rdLast.action.type = "UPDATE_HOURLY_DATA"
  /\ rdLast.action.timeWindow = "WEEK"
  /\ rdLast.before[rdLast.action.address] # NoVal
  /\ rdLast.before[rdLast.action.address].txns # NoVal
  /\ rdLast.before[rdLast.action.address].hourlyData["MONTH"] # NoVal
  /\ pairState[rdLast.action.address].hourlyData["MONTH"] # NoVal
  /\ pairState[rdLast.action.address].txns # NoVal

-----------------------------------------------------------------------------
(* The pair cache: what stays once written *)

\* the cache holds data of the three fetched kinds for address a
HoldsTxns(state, a) == state[a] # NoVal /\ state[a].txns # NoVal

HoldsChartData(state, a) == state[a] # NoVal /\ state[a].chartData # NoVal

HoldsHourlyData(state, a, w) ==
  state[a] # NoVal /\ state[a].hourlyData[w] # NoVal

\* C32: chart data, a transaction list or hourly data the pair cache holds
\* for an address is still held after every step: a later write may replace
\* it, no write removes it.
C32_WrittenDataStays ==
  [][\A a \in Pairs :
       /\ HoldsTxns(pairState, a) => HoldsTxns(pairState', a)
       /\ HoldsChartData(pairState, a) => HoldsChartData(pairState', a)
       /\ \A w \in Windows :
            HoldsHourlyData(pairState, a, w) => HoldsHourlyData(pairState', a, w)]_vars

-----------------------------------------------------------------------------
(* useDataForList: properties *)

\* C33: useDataForList launches at most one bulk fetch for a pairList value,
\* and once every effect has run and every launched fetch has answered, the
\* fetched result is that of the fetch launched for the current pairList.
C33_FinalResultOfCurrentList ==
  fnPc = "listed" =>
    /\ \A list \in PairLists : fnLocals.launched[list] <= 1
    /\ (fnLocals.pending = {} /\ fnLocals.flight = {}) =>
         fnLocals.fetched = FetchedFor(fnLocals.pairList)

-----------------------------------------------------------------------------
(* usePairData: the metrics arrive *)

\* the cache entry of address a holds the pair's fields and derived metrics
HoldsMetrics(a) == pairState[a] # NoVal /\ pairState[a].pair # NoVal

\* C34: once usePairData is used for a valid pair address and every query is
\* answered, the cache entry of the address comes to hold the pair's derived
\* metrics, in whatever order the writes of the other hooks arrive.
C34_MetricsArrive == ("usePairData" \in pgHooks) ~> HoldsMetrics(pgAddr)

-----------------------------------------------------------------------------
(* useGlobalData without a snapshot: properties *)

\* the rounds launched so far: those that await getGlobalData and those it
\* has answered
RoundsLaunched == glRounds["getGlobalData"] + glNulls

\* C35: when getGlobalData answers null every time, the fetch rounds launched
\* stay bounded: there are never more of them than null answers the source
\* gives in the model, so that fetching comes to an end.
C35_RoundsBounded == RoundsLaunched <= MaxNullRounds

-----------------------------------------------------------------------------
(* getHourlyRateData: properties *)

\* the series of one rate is the candles of consecutive points
IsCandles(series, values, rate) ==
  /\ Len(series) = (IF Len(values) = 0 THEN 0 ELSE Len(values) - 1)
  /\ \A i \in 1..Len(series) :
       /\ series[i].timestamp = values[i].timestamp
       /\ series[i].open = values[i][rate]
       /\ series[i].close = values[i + 1][rate]
  /\ \A i \in 1..(Len(series) - 1) : series[i].close = series[i + 1].open

\* the price points of the queried blocks, read from the source
PricePoints ==
  [i \in 1..Len(fnLocals.blocks) |->
     [timestamp |-> fnLocals.blocks[i].timestamp,
      rate0 |-> RatesAt(fnLocals.blocks[i].number).token0Price,
      rate1 |-> RatesAt(fnLocals.blocks[i].number).token1Price]]

C36_Candles ==
  fnPc = "done" /\ fnResult.returned # <<>>
                /\ fnResult.returned # <<<<>>, <<>>>> =>
    /\ IsCandles(fnResult.returned[1], PricePoints, "rate0")
    /\ IsCandles(fnResult.returned[2], PricePoints, "rate1")

C36_QueriedIndexed ==
  fnPc \in {"rates", "done"} =>
    \A i \in 1..Len(fnLocals.blocks) :
      fnLocals.blocks[i].number <= fnSource.indexed

\* C36: getHourlyRateData returns, for each of the two rates, the candles of
\* the consecutive price points in timestamp order (n points give
\* max(n - 1, 0) candles, candle i has the timestamp and open of point i and
\* the close of point i + 1, so each close is the next open), and only blocks
\* up to the latest indexed block are queried.
C36_CandlesOfIndexedBlocks == C36_Candles /\ C36_QueriedIndexed

-----------------------------------------------------------------------------
(* useGlobalChartData: the oldest date *)

\* the earliest start of the timeframes that have been active since mount
EarliestStart ==
  CHOOSE t \in {GetTimeframe(w) : w \in fnLocals.actives} :
    \A w \in fnLocals.actives : t <= GetTimeframe(w)

\* once the first effect has run for the render, the oldest date is the
\* earliest start
OldestIsEarliest ==
  (fnPc = "mounted" /\ "oldestDate" \notin fnLocals.pending) =>
    fnLocals.oldestDateFetch = EarliestStart

\* a step never moves a set oldest date forward
OldestNeverLater ==
  (fnPc = "mounted" /\ fnLocals.oldestDateFetch # 0) =>
    fnLocals'.oldestDateFetch <= fnLocals.oldestDateFetch

\* C37: the oldest fetched date useGlobalChartData tracks never increases,
\* and after any sequence of timeframe changes, once its effect has run, it
\* is the minimum start time of the timeframes active since mount.
C37_OldestDateIsMinimum == []OldestIsEarliest /\ [][OldestNeverLater]_vars

\* a shorter window is active after a longer one, and the oldest date is the
\* start of the longest
C37_Witness ==
  /\ fnPc = "mounted"
  /\ fnLocals.pending = {}
  /\ fnLocals.actives = Timeframes
  /\ fnLocals.activeWindow = "MONTH"
  /\ fnLocals.oldestDateFetch = GetTimeframe("ALL_TIME")

-----------------------------------------------------------------------------
(* useCurrentCurrency: properties *)

\* C38: toggleCurrency alternates the display currency: a call made with USD
\* displayed leaves ETH and a call made with ETH displayed leaves USD, so
\* that two consecutive calls starting from USD restore USD.
C38_ToggleAlternates ==
  (rdContext = "Application" /\ rdLast # NoVal
     /\ rdLast.action.type = "toggleCurrency"
     /\ rdLast.before["CURRENCY"] \in {USD, ETH}) =>
    appState["CURRENCY"] = IF rdLast.before["CURRENCY"] = USD THEN ETH ELSE USD

=============================================================================
